---------------------------- MODULE Spec2Model ----------------------------
(***************************************************************************)
(* A model of the justsecuritybackend HTTP API: the route handlers of      *)
(* src/app/api/** and src/unnamed/part_00x, the relational store they      *)
(* write through the ORM, the key-value cache and the rate limiter.        *)
(*                                                                         *)
(* Every request runs in a slot of reqs.  A handler is a sequence of       *)
(* steps, one per awaited store/cache/vendor operation that another        *)
(* request can interleave with; reqs[r].pc is the handler's position and   *)
(* the other fields of reqs[r] are its local variables.  Rows are kept in  *)
(* sequences, a row's primary key (the ORM's generated id) is its index.   *)
(*                                                                         *)
(* Each subsystem has its own specification (SpecCommand, SpecBind, ...)   *)
(* over the same variables; a specification leaves the variables of the    *)
(* other subsystems at their initial value.                                *)
(***************************************************************************)
EXTENDS Integers, Sequences, FiniteSets, TLC

VARIABLES
    users,          \* User rows
    devices,        \* Device rows
    pushTokens,     \* PushToken rows
    commands,       \* AntiTheftCommand rows
    telemetry,      \* TelemetryLog rows
    subscriptions,  \* Subscription rows
    signatures,     \* ThreatSignature rows
    scanLogs,       \* ScanLog rows
    quarantine,     \* Quarantine rows
    adminAuditLog,  \* AdminAuditLog rows
    cache,          \* redis: threat:<hash> -> cached ThreatResult, with expiry
    redisUp,        \* whether the cache service answers
    zset,           \* redis: rate_limit:<identifier> sorted sets
    zcounter,       \* redis: rate_limit:<identifier>:counter
    now,            \* wall clock, milliseconds
    reqs            \* request slots: position and locals of each handler run

store == <<users, devices, pushTokens, commands, telemetry, subscriptions,
           signatures, scanLogs, quarantine, adminAuditLog>>
redis == <<cache, redisUp, zset, zcounter>>
vars == <<users, devices, pushTokens, commands, telemetry, subscriptions,
          signatures, scanLogs, quarantine, adminAuditLog, cache, redisUp, zset, zcounter,
          now, reqs>>

(***************************************************************************)
(* Bounds of the model.                                                    *)
(***************************************************************************)
MaxCmdReqs == 2     \* request slots of SpecCommand

Reqs == DOMAIN reqs
Idle == [pc |-> "idle"]

\* Slots are interchangeable: slot r starts only after slot r-1 has started.
MayStart(r) ==
    /\ reqs[r].pc = "idle"
    /\ \A q \in 1..(r - 1) : reqs[q].pc # "idle"

\* The handler returns a NextResponse: the slot keeps only the response.
Respond(r, kind, resp) ==
    [reqs EXCEPT ![r] = [pc |-> "done", kind |-> kind, resp |-> resp]]


(***************************************************************************)
(* lib/auth.ts                                                             *)
(***************************************************************************)
\* An Authorization header: "none" is a header that is absent or does not
\* start with "Bearer ", "expired" a bearer JWT that fails verification, and
\* "valid" a JWT whose payload names a user id.
NoAuth == {[kind |-> k, userId |-> 0] : k \in {"none", "expired"}}
Bearer(u) == [kind |-> "valid", userId |-> u]

verifyAuth(header) ==
    IF header.kind = "none"
    THEN [ok |-> FALSE, error |-> "Missing or invalid authorization header"]
    ELSE IF header.kind = "expired"
    THEN [ok |-> FALSE, error |-> "Invalid or expired token"]
    ELSE [ok |-> TRUE, userId |-> header.userId]

\* String.prototype.includes(part) over the messages the handlers throw: no
\* thrown message contains another one, or the word Unauthorized, as a
\* proper part.
MessageIncludes(msg, part) == msg = part

(***************************************************************************)
(* lib/rate-limit.ts                                                       *)
(***************************************************************************)
MsPerSec == 1000

\* A script that also records the calls it rejects.
M_rateLimitScriptRecordsRejected(z, c, nowMs, window, limit) ==
    LET windowStart == nowMs - (window * MsPerSec)
        kept == {e \in z : ~(0 <= e.score /\ e.score <= windowStart)}
        currentCount == Cardinality(kept)
    IN  [ret |-> IF currentCount >= limit THEN <<0, 0>>
                 ELSE <<1, limit - currentCount - 1>>,
         z |-> kept \cup {[score |-> nowMs, member |-> <<nowMs, c + 1>>]},
         c |-> c + 1]

\* The Lua script, run atomically by redis.  z is the sorted set at the key
\* (a set of [score, member] entries), c the counter at key .. ':counter'.
rateLimitScript(z, c, nowMs, window, limit) ==
    LET windowStart == nowMs - (window * MsPerSec)
        kept == {e \in z : ~(0 <= e.score /\ e.score <= windowStart)}
        currentCount == Cardinality(kept)
    IN  IF currentCount >= limit
        THEN [ret |-> <<0, 0>>, z |-> kept, c |-> c]
        ELSE [ret |-> <<1, limit - currentCount - 1>>,
              z |-> kept \cup {[score |-> nowMs, member |-> <<nowMs, c + 1>>]},
              c |-> c + 1]

\* EXPIRE key window: the whole sorted set is dropped `window` seconds after
\* the last accepted call.  An entry's score is at most that call's time, so
\* what EXPIRE drops ZREMRANGEBYSCORE would drop too.
LiveZset(key, window) ==
    {e \in zset[key] :
        \E l \in zset[key] : l.score + window * MsPerSec > now}

rateLimit(identifier, limit, window) ==
    LET out == rateLimitScript(LiveZset(identifier, window),
                               zcounter[identifier], now, window, limit)
    IN  [success |-> out.ret[1] = 1, remaining |-> out.ret[2],
         zset |-> [zset EXCEPT ![identifier] = out.z],
         zcounter |-> [zcounter EXCEPT ![identifier] = out.c]]


(***************************************************************************)
(* Store helpers (the ORM calls the handlers make)                         *)
(***************************************************************************)

\* prisma.device.findFirst({ where: { id, userId [, isActive: true] } })
\* A lookup by id alone.
M_FindOwnedDevice(id, userId, mustBeActive) == {d \in DOMAIN devices : d = id}

FindOwnedDevice(id, userId, mustBeActive) ==
    {d \in DOMAIN devices :
        /\ d = id
        /\ devices[d].userId = userId
        /\ (mustBeActive => devices[d].isActive)}

\* include: { pushTokens: { where: { isActive: true } } }
ActiveTokensOf(d) ==
    {t \in DOMAIN pushTokens :
        pushTokens[t].deviceId = d /\ pushTokens[t].isActive}

TelemetryRow(userId, eventType, deviceId) ==
    [userId |-> userId, eventType |-> eventType, deviceId |-> deviceId]

(***************************************************************************)
(* app/api/device/command/route.ts                                         *)
(***************************************************************************)
CommandLimit == 10
CommandWindow == 3600

COMMAND_TYPE_MAP ==
    [locate |-> "LOCATE", ring |-> "RING", lock |-> "LOCK", wipe |-> "WIPE"]

EmptyMeta == [k \in {} |-> ""]

\* Request bodies: a Device.id, a commandType (reboot is not in the enum)
\* and the optional metadata.
CommandBodies ==
    LET Body(deviceId, commandType, metadata) ==
            [deviceId |-> deviceId, commandType |-> commandType,
             metadata |-> metadata]
    IN  {Body(1, "locate", [lockMessage |-> "call me"]),
         Body(1, "lock", EmptyMeta),
         Body(2, "locate", EmptyMeta),
         Body(3, "locate", EmptyMeta),
         Body(1, "reboot", EmptyMeta)}

DeviceCommandSchemaOk(body) ==
    body.commandType \in DOMAIN COMMAND_TYPE_MAP

\* What admin.messaging().send(message) does for one token: it resolves, or
\* rejects with an error code.
PushOutcomes ==
    {"sent", "messaging/invalid-registration-token",
     "messaging/registration-token-not-registered", "messaging/internal-error"}

\* A handler that knows only the first of the two codes.
M_DeactivatingCodes == {"messaging/invalid-registration-token"}

DeactivatingCodes ==
    {"messaging/invalid-registration-token",
     "messaging/registration-token-not-registered"}

\* The handler's catch block.
CommandCatch(error) ==
    IF error = "ZodError"
    THEN [status |-> 400, error |-> "Invalid request data"]
    ELSE IF MessageIncludes(error, "Unauthorized")
    THEN [status |-> 401, error |-> "Unauthorized"]
    ELSE [status |-> 500, error |-> "Failed to send command"]

RateKey(prefix, userId) == <<prefix, userId>>

\* Lines 47-98: authentication, rate limit, validation, the ownership and
\* token checks, and the creation of the PENDING row.
\* A finished command request keeps, next to its response, the caller (0
\* when the token was refused), the device it named and whether its body
\* passed DeviceCommandSchema.
CommandDone(r, userId, deviceId, valid, resp) ==
    [reqs EXCEPT ![r] = [pc |-> "done", kind |-> "command", resp |-> resp,
                         userId |-> userId, deviceId |-> deviceId,
                         valid |-> valid]]

CommandStart(r) ==
    \E header \in NoAuth \cup {Bearer(u) : u \in DOMAIN users},
       body \in CommandBodies :
        LET auth == verifyAuth(header)
            rl == rateLimit(RateKey("device_command", auth.userId),
                            CommandLimit, CommandWindow)
            found == FindOwnedDevice(body.deviceId, auth.userId, TRUE)
            tokens == ActiveTokensOf(body.deviceId)
            row == [deviceId |-> body.deviceId,
                    commandType |-> COMMAND_TYPE_MAP[body.commandType],
                    status |-> "PENDING",
                    issuedBy |-> auth.userId,
                    metadata |-> body.metadata,
                    executedAt |-> 0]
        IN  /\ MayStart(r)
            /\ IF ~auth.ok
               THEN /\ reqs' = CommandDone(r, 0, body.deviceId,
                              DeviceCommandSchemaOk(body), CommandCatch(auth.error))
                    /\ UNCHANGED <<commands, zset, zcounter>>
               ELSE /\ zset' = rl.zset
                    /\ zcounter' = rl.zcounter
                    /\ IF ~rl.success
                       THEN /\ reqs' = CommandDone(r, auth.userId, body.deviceId,
                              DeviceCommandSchemaOk(body), [status |-> 429,
                                  error |-> "Too many commands. Please try again later."])
                            /\ UNCHANGED commands
                       ELSE IF ~DeviceCommandSchemaOk(body)
                       THEN /\ reqs' = CommandDone(r, auth.userId, body.deviceId,
                              DeviceCommandSchemaOk(body), CommandCatch("ZodError"))
                            /\ UNCHANGED commands
                       ELSE IF found = {}
                       THEN /\ reqs' = CommandDone(r, auth.userId, body.deviceId,
                              DeviceCommandSchemaOk(body), [status |-> 404,
                                  error |-> "Device not found or inactive"])
                            /\ UNCHANGED commands
                       ELSE IF tokens = {}
                       THEN /\ reqs' = CommandDone(r, auth.userId, body.deviceId,
                              DeviceCommandSchemaOk(body), [status |-> 400,
                                  error |-> "Device has no active push tokens"])
                            /\ UNCHANGED commands
                       ELSE /\ commands' = Append(commands, row)
                            /\ reqs' = [reqs EXCEPT ![r] =
                                  [pc |-> "cmd_fanout", kind |-> "command",
                                   userId |-> auth.userId,
                                   deviceId |-> body.deviceId,
                                   valid |-> TRUE,
                                   commandId |-> Len(commands) + 1,
                                   pushTokens |-> tokens,
                                   pushResults |-> [t \in {} |-> ""],
                                   reasons |-> [t \in {} |-> ""]]]
            /\ UNCHANGED <<users, devices, pushTokens, telemetry, subscriptions,
                           signatures, scanLogs, quarantine, adminAuditLog, cache, redisUp, now>>

\* Lines 101-141: one promise of the Promise.allSettled fan-out settles.  A
\* rejection with one of the two registration codes first deactivates the
\* token.
\* The slot keeps each settled promise's status in pushResults and what
\* send did (the rejection's code) in reasons.
CommandPush(r) ==
    /\ reqs[r].pc = "cmd_fanout"
    /\ \E t \in reqs[r].pushTokens \ DOMAIN reqs[r].pushResults,
          outcome \in PushOutcomes :
        /\ pushTokens' =
              IF outcome \in DeactivatingCodes
              THEN [pushTokens EXCEPT ![t].isActive = FALSE]
              ELSE pushTokens
        /\ reqs' = [reqs EXCEPT ![r].pushResults =
              [x \in DOMAIN @ \cup {t} |->
                  IF x = t
                  THEN (IF outcome = "sent" THEN "fulfilled" ELSE "rejected")
                  ELSE @[x]],
                                ![r].reasons =
              [x \in DOMAIN @ \cup {t} |-> IF x = t THEN outcome ELSE @[x]]]
        /\ UNCHANGED <<users, devices, commands, telemetry, subscriptions,
                       signatures, scanLogs, quarantine, adminAuditLog, cache, redisUp,
                       zset, zcounter, now>>

\* Lines 129-137 when the store rejects the deactivating update: the send
\* was rejected with one of the two registration codes, the update throws
\* inside the catch block and its error becomes the promise's reason.  The
\* token row is not written.
CommandPushWriteFails(r) ==
    /\ reqs[r].pc = "cmd_fanout"
    /\ \E t \in reqs[r].pushTokens \ DOMAIN reqs[r].pushResults :
        reqs' = [reqs EXCEPT ![r].pushResults =
              [x \in DOMAIN @ \cup {t} |-> IF x = t THEN "rejected" ELSE @[x]],
                             ![r].reasons =
              [x \in DOMAIN @ \cup {t} |->
                  IF x = t THEN "PrismaClientKnownRequestError" ELSE @[x]]]
    /\ UNCHANGED <<store, redis, now>>

\* A count that a single rejected delivery brings to zero.
M_successfulPushesAllOrNone(pushResults) ==
    IF \E t \in DOMAIN pushResults : pushResults[t] = "rejected" THEN 0
    ELSE Cardinality(DOMAIN pushResults)

\* pushResults.filter(r => r.status === 'fulfilled').length
successfulPushes(pushResults) ==
    Cardinality({t \in DOMAIN pushResults : pushResults[t] = "fulfilled"})

\* A fan-out that wants every delivery to succeed.
M_StatusAllSucceeded(pushResults) ==
    IF \A t \in DOMAIN pushResults : pushResults[t] = "fulfilled"
    THEN "SENT" ELSE "FAILED"

\* Lines 145-156: the status the fan-out's outcome gives the row.
StatusAfterFanout(pushResults) ==
    IF successfulPushes(pushResults) > 0 THEN "SENT" ELSE "FAILED"

\* Lines 143-178: all promises settled; the row's status, the telemetry row
\* and the response.
CommandFinish(r) ==
    /\ reqs[r].pc = "cmd_fanout"
    /\ DOMAIN reqs[r].pushResults = reqs[r].pushTokens
    /\ LET n == successfulPushes(reqs[r].pushResults)
       IN  /\ commands' = [commands EXCEPT ![reqs[r].commandId].status =
                              StatusAfterFanout(reqs[r].pushResults)]
           /\ telemetry' = Append(telemetry,
                 TelemetryRow(reqs[r].userId, "anti_theft_command_issued",
                              reqs[r].deviceId))
           /\ reqs' = CommandDone(r, reqs[r].userId, reqs[r].deviceId, TRUE,
                 [status |-> 200, commandId |-> reqs[r].commandId,
                  commandStatus |-> IF n > 0 THEN "sent" ELSE "failed",
                  pushesSent |-> n])
    /\ UNCHANGED <<users, devices, pushTokens, subscriptions, signatures,
                   scanLogs, quarantine, adminAuditLog, cache, redisUp, zset, zcounter, now>>

\* Lines 145-169 when the store rejects one of the two writes that follow
\* the fan-out: the update of the row (nothing is written) or the telemetry
\* insert (the row keeps its new status).  The catch block answers 500.
CommandFinishFails(r) ==
    /\ reqs[r].pc = "cmd_fanout"
    /\ DOMAIN reqs[r].pushResults = reqs[r].pushTokens
    /\ \E call \in {"antiTheftCommand.update", "telemetryLog.create"} :
         commands' = IF call = "antiTheftCommand.update" THEN commands
                     ELSE [commands EXCEPT ![reqs[r].commandId].status =
                              StatusAfterFanout(reqs[r].pushResults)]
    /\ reqs' = CommandDone(r, reqs[r].userId, reqs[r].deviceId, TRUE,
                           CommandCatch("PrismaClientKnownRequestError"))
    /\ UNCHANGED <<users, devices, pushTokens, telemetry, subscriptions,
                   signatures, scanLogs, quarantine, adminAuditLog, cache,
                   redisUp, zset, zcounter, now>>


(***************************************************************************)
(* app/api/admin/threats/upload/route.ts, lines 166-370: a second          *)
(* device-command handler                                                  *)
(***************************************************************************)
\* The second handler as it would run if its push loop did not throw: the
\* pushes go out first and the row is then created as SENT.
M_LegacyCommandCreatesSent(r) ==
    \E header \in NoAuth \cup {Bearer(u) : u \in DOMAIN users},
       body \in CommandBodies :
        LET auth == verifyAuth(header)
            ok == /\ auth.ok
                  /\ DeviceCommandSchemaOk(body)
                  /\ FindOwnedDevice(body.deviceId, auth.userId, TRUE) # {}
                  /\ ActiveTokensOf(body.deviceId) # {}
        IN  /\ MayStart(r)
            /\ ok
            /\ commands' = Append(commands,
                  [deviceId |-> body.deviceId,
                   commandType |-> COMMAND_TYPE_MAP[body.commandType],
                   status |-> "SENT", issuedBy |-> auth.userId,
                   metadata |-> body.metadata, executedAt |-> 0])
            /\ telemetry' = Append(telemetry,
                  TelemetryRow(auth.userId, "anti_theft_command_issued",
                               body.deviceId))
            /\ reqs' = CommandDone(r, auth.userId, body.deviceId, TRUE,
                  [status |-> 200, commandId |-> Len(commands) + 1,
                   commandStatus |-> "sent"])
            /\ UNCHANGED <<users, devices, pushTokens, subscriptions,
                           signatures, scanLogs, quarantine, adminAuditLog,
                           redis, now>>

\* Lines 187-293.  The push loop (239-245) reads command.id before the
\* `const command` of line 249 is initialised, so its first iteration throws
\* a ReferenceError; the loop runs at least once because an empty token list
\* was answered 400.  The catch block maps everything but a ZodError to 500.
LegacyCommandPOST(r) ==
    \E header \in NoAuth \cup {Bearer(u) : u \in DOMAIN users},
       body \in CommandBodies :
        LET auth == verifyAuth(header)
            rl == rateLimit(RateKey("device_command", auth.userId),
                            CommandLimit, CommandWindow)
            found == FindOwnedDevice(body.deviceId, auth.userId, TRUE)
            tokens == ActiveTokensOf(body.deviceId)
            failed == [status |-> 500, error |-> "Failed to send command"]
        IN  /\ MayStart(r)
            /\ IF ~auth.ok
               THEN /\ reqs' = CommandDone(r, 0, body.deviceId,
                              DeviceCommandSchemaOk(body), failed)
                    /\ UNCHANGED <<zset, zcounter>>
               ELSE /\ zset' = rl.zset
                    /\ zcounter' = rl.zcounter
                    /\ reqs' = CommandDone(r, auth.userId, body.deviceId,
                              DeviceCommandSchemaOk(body),
                          IF ~rl.success
                          THEN [status |-> 429,
                                error |-> "Too many commands. Please try again later."]
                          ELSE IF ~DeviceCommandSchemaOk(body)
                          THEN [status |-> 400, error |-> "Invalid request data"]
                          ELSE IF found = {}
                          THEN [status |-> 404, error |-> "Device not found or inactive"]
                          ELSE IF tokens = {}
                          THEN [status |-> 400,
                                error |-> "Device has no active push tokens"]
                          ELSE failed)
            /\ UNCHANGED <<users, devices, pushTokens, commands, telemetry,
                           subscriptions, signatures, scanLogs, quarantine, adminAuditLog,
                           cache, redisUp, now>>

(***************************************************************************)
(* app/api/device/location/route.ts                                        *)
(***************************************************************************)
LocationFixes ==
    {[latitude |-> 48, longitude |-> 2, accuracy |-> 10],
     [latitude |-> 91, longitude |-> 2, accuracy |-> 10]}

LocationBodies == [deviceId : 1..2, commandId : 1..2, fix : LocationFixes]

LocationSchemaOk(body) ==
    /\ -90 <= body.fix.latitude /\ body.fix.latitude <= 90
    /\ -180 <= body.fix.longitude /\ body.fix.longitude <= 180
    /\ body.fix.accuracy > 0

\* where: { id: commandId, deviceId: device.id, commandType: 'LOCATE' }
FindLocateCommand(commandId, deviceId) ==
    {c \in DOMAIN commands :
        /\ c = commandId
        /\ commands[c].deviceId = deviceId
        /\ commands[c].commandType = "LOCATE"}

\* An update that stores the location as the whole metadata.
M_MergeLocationReplaces(metadata, fix) == [k \in {"location"} |-> fix]

\* { ...(command.metadata || {}), location: {...} }
MergeLocation(metadata, fix) ==
    [k \in DOMAIN metadata \cup {"location"} |->
        IF k = "location" THEN fix ELSE metadata[k]]

\* Lines 28-62: authentication, validation, the device and command lookups.
LocationStart(r) ==
    \E header \in NoAuth \cup {Bearer(u) : u \in DOMAIN users},
       body \in LocationBodies :
        LET auth == verifyAuth(header)
            failed == [status |-> 500, error |-> "Location update failed"]
        IN  /\ MayStart(r)
            /\ reqs' =
                 IF ~auth.ok
                 THEN Respond(r, "location", failed)
                 ELSE IF ~LocationSchemaOk(body)
                 THEN Respond(r, "location",
                        [status |-> 400, error |-> "Invalid request data"])
                 ELSE IF FindOwnedDevice(body.deviceId, auth.userId, FALSE) = {}
                 THEN Respond(r, "location",
                        [status |-> 404, error |-> "Device not found"])
                 ELSE IF FindLocateCommand(body.commandId, body.deviceId) = {}
                 THEN Respond(r, "location",
                        [status |-> 404, error |-> "Command not found"])
                 ELSE [reqs EXCEPT ![r] =
                        [pc |-> "loc_update", kind |-> "location",
                         commandId |-> body.commandId,
                         metadata |-> commands[body.commandId].metadata,
                         fix |-> body.fix]]
            /\ UNCHANGED <<store, redis, now>>

\* Lines 64-87: the update of the row found, and the response.
LocationUpdate(r) ==
    /\ reqs[r].pc = "loc_update"
    /\ commands' = [commands EXCEPT ![reqs[r].commandId] =
          [@ EXCEPT !.status = "EXECUTED",
                    !.executedAt = now,
                    !.metadata = MergeLocation(reqs[r].metadata, reqs[r].fix)]]
    /\ reqs' = Respond(r, "location",
          [status |-> 200, commandId |-> reqs[r].commandId,
           commandStatus |-> "EXECUTED"])
    /\ UNCHANGED <<users, devices, pushTokens, telemetry, subscriptions,
                   signatures, scanLogs, quarantine, adminAuditLog, redis, now>>

(***************************************************************************)
(* Rows of the seeded store                                                *)
(***************************************************************************)
UserRow(email, provider, providerId, passwordHash) ==
    [email |-> email, authProvider |-> provider, authProviderId |-> providerId,
     passwordHash |-> passwordHash, role |-> "USER"]

DeviceRow(deviceId, userId, info, seen) ==
    [deviceId |-> deviceId, userId |-> userId, deviceName |-> info.deviceName,
     platform |-> info.platform, osVersion |-> info.osVersion,
     appVersion |-> info.appVersion, lastSeen |-> seen, isActive |-> TRUE]

TokenRow(token, deviceId, platform, isActive) ==
    [token |-> token, deviceId |-> deviceId, platform |-> platform,
     isActive |-> isActive]

\* deviceName, platform, osVersion and appVersion of a request or a row.
Info1 == [deviceName |-> "Pixel", platform |-> "android", osVersion |-> "14",
          appVersion |-> "1.0"]
Info2 == [deviceName |-> "iPhone", platform |-> "ios", osVersion |-> "18",
          appVersion |-> "1.1"]

SeedUsers ==
    <<UserRow("a@example.com", "google", "google-a", ""),
      UserRow("b@example.com", "email", "", "$2b$10$b")>>

(***************************************************************************)
(* SpecCommand: command dispatch and location reports.  User 1 owns        *)
(* device 1 (two active tokens) and device 3 (one inactive token) and has  *)
(* had CommandLimit - 1 commands accepted in the current window; user 2    *)
(* owns device 2 (one active token).                                       *)
(***************************************************************************)
StartTime == 10 * CommandWindow * MsPerSec

InitStoreEmpty ==
    /\ commands = <<>>
    /\ telemetry = <<>>
    /\ subscriptions = <<>>
    /\ signatures = <<>>
    /\ scanLogs = <<>>
    /\ quarantine = <<>>
    /\ adminAuditLog = <<>>

InitCommand ==
    /\ users = SeedUsers
    /\ devices = <<DeviceRow("dev-1", 1, Info1, StartTime),
                   DeviceRow("dev-2", 2, Info1, StartTime),
                   DeviceRow("dev-3", 1, Info1, StartTime)>>
    /\ pushTokens = <<TokenRow("tok-1", 1, "fcm", TRUE),
                      TokenRow("tok-2", 1, "apns", TRUE),
                      TokenRow("tok-3", 2, "fcm", TRUE),
                      TokenRow("tok-4", 3, "fcm", FALSE)>>
    /\ InitStoreEmpty
    /\ cache = <<>>
    /\ redisUp = TRUE
    /\ zset = [k \in {RateKey("device_command", u) : u \in 1..2} |->
                 IF k[2] = 1
                 THEN {[score |-> StartTime, member |-> <<StartTime, i>>] :
                          i \in 1..(CommandLimit - 1)}
                 ELSE {}]
    /\ zcounter = [k \in {RateKey("device_command", u) : u \in 1..2} |->
                     IF k[2] = 1 THEN CommandLimit - 1 ELSE 0]
    /\ now = StartTime
    /\ reqs = [r \in 1..MaxCmdReqs |-> Idle]

NextCommand ==
    \/ \E r \in Reqs : CommandStart(r)
    \/ \E r \in Reqs : CommandPush(r)
    \/ \E r \in Reqs : CommandFinish(r)
    \/ \E r \in Reqs : LegacyCommandPOST(r)
    \/ \E r \in Reqs : LocationStart(r)
    \/ \E r \in Reqs : LocationUpdate(r)

SpecCommand == InitCommand /\ [][NextCommand]_vars


C2_ExecutedOnlyFromSentLocate ==
    [][\A c \in DOMAIN commands :
         (commands'[c] # commands[c] /\ commands'[c].status = "EXECUTED") =>
            /\ commands[c].commandType = "LOCATE"
            /\ commands[c].status = "SENT"]_vars


\* C14: a device/command request of an authenticated caller that names a
\* device which is not an active device of the caller, or one without an
\* active push token, is rejected in the step that looks the device up: with
\* 404 resp. 400 when it passed the rate limit and the validation (with 429
\* or 400 otherwise); it creates no AntiTheftCommand row and no TelemetryLog
\* row, changes no PushToken row and never reaches the fan-out.
C14_RejectedBeforeAnyWrite ==
    [][\A r \in Reqs :
         LET id == reqs'[r].deviceId
             notOwned == \/ id \notin DOMAIN devices
                         \/ devices[id].userId # reqs'[r].userId
                         \/ ~devices[id].isActive
             noToken == ~\E t \in DOMAIN pushTokens :
                            pushTokens[t].deviceId = id /\ pushTokens[t].isActive
         IN  (/\ reqs[r].pc = "idle"
              /\ reqs'[r].pc # "idle"
              /\ reqs'[r].kind = "command"
              /\ reqs'[r].userId # 0
              /\ (notOwned \/ noToken))
             => /\ reqs'[r].pc = "done"
                /\ reqs'[r].resp.status \in {400, 404, 429}
                /\ (reqs'[r].valid /\ zset' # zset)
                   => reqs'[r].resp =
                        IF notOwned
                        THEN [status |-> 404,
                              error |-> "Device not found or inactive"]
                        ELSE [status |-> 400,
                              error |-> "Device has no active push tokens"]
                /\ commands' = commands
                /\ telemetry' = telemetry
                /\ pushTokens' = pushTokens
                /\ devices' = devices]_vars

\* User 2 asked for a command on user 1's device and got 404; user 1 asked
\* for one on their device without an active token and got 400; nothing was
\* written.
C14_Witness ==
    \E r, q \in Reqs :
        /\ r # q
        /\ reqs[r].pc = "done" /\ reqs[r].kind = "command"
        /\ reqs[r].userId = 2 /\ reqs[r].deviceId = 1
        /\ reqs[r].resp.status = 404
        /\ reqs[q].pc = "done" /\ reqs[q].kind = "command"
        /\ reqs[q].userId = 1 /\ reqs[q].deviceId = 3
        /\ reqs[q].resp = [status |-> 400,
                           error |-> "Device has no active push tokens"]
        /\ commands = <<>>
        /\ telemetry = <<>>

(***************************************************************************)
(* Unique keys and the locks of uncommitted transaction writes             *)
(***************************************************************************)
DeviceByDeviceId(deviceId) ==
    {d \in DOMAIN devices : devices[d].deviceId = deviceId}

TokenByToken(token) ==
    {t \in DOMAIN pushTokens : pushTokens[t].token = token}

UserByEmail(email) ==
    {u \in DOMAIN users : users[u].email = email}

\* An interactive transaction's writes stay invisible to the other requests
\* until it commits, and a write to a row or unique key that another
\* transaction has written and not yet committed waits for that transaction
\* (READ COMMITTED, the store's default).  The auth/verify transaction is
\* the only one that reads after it has written: it holds its user's email
\* from its first step and its deviceId from its second.
EmailFree(r, email) ==
    \A q \in Reqs \ {r} :
        ~(reqs[q].pc \in {"ver_device", "ver_sub"} /\ reqs[q].email = email)

DeviceIdFree(r, deviceId) ==
    \A q \in Reqs \ {r} :
        ~(reqs[q].pc = "ver_sub" /\ reqs[q].deviceId = deviceId)

(***************************************************************************)
(* app/api/device/register/route.ts (src/unnamed/part_002)                 *)
(***************************************************************************)
RegisterLimit == 10
RegisterWindow == 60

\* deviceId and deviceName are z.string().min(1); pushToken is optional.
RegisterDeviceSchemaOk(body) ==
    /\ body.deviceId # ""
    /\ body.info.deviceName # ""
    /\ body.info.platform \in {"ios", "android"}

\* prisma.device.upsert of lines 34-53: an existing row keeps its userId.
RegisterUpsertDevice(userId, body) ==
    IF DeviceByDeviceId(body.deviceId) # {}
    THEN LET d == CHOOSE d \in DeviceByDeviceId(body.deviceId) : TRUE
         IN  [devices EXCEPT ![d] =
                [@ EXCEPT !.deviceName = body.info.deviceName,
                          !.osVersion = body.info.osVersion,
                          !.appVersion = body.info.appVersion,
                          !.lastSeen = now,
                          !.isActive = TRUE]]
    ELSE Append(devices, DeviceRow(body.deviceId, userId, body.info, now))

\* A register request that skips the ownership checks.
M_BelongsToAnother(ownerId, userId) == FALSE

\* Lines 56 and 69: device.userId !== user.userId
BelongsToAnother(ownerId, userId) == ownerId # userId

TokenPlatform(platform) == IF platform = "ios" THEN "apns" ELSE "fcm"

\* tx.pushToken.upsert of lines 73-86: an existing row is pointed at the
\* caller's device.
RegisterUpsertToken(token, device, platform) ==
    IF TokenByToken(token) # {}
    THEN LET t == CHOOSE t \in TokenByToken(token) : TRUE
         IN  [pushTokens EXCEPT ![t] =
                [@ EXCEPT !.deviceId = device,
                          !.platform = TokenPlatform(platform),
                          !.isActive = TRUE]]
    ELSE Append(pushTokens,
                TokenRow(token, device, TokenPlatform(platform), TRUE))

\* The handler's catch block.
RegisterCatch(error) ==
    IF error = "ZodError"
    THEN [status |-> 400, error |-> "Invalid request data"]
    ELSE IF error \in {"Push token belongs to another user",
                       "Device belongs to another user"}
    THEN [status |-> 403, error |-> error]
    ELSE [status |-> 500, error |-> "Device registration failed"]

\* The user a push token is bound to: the owner of the device it points to.
TokenOwner(t) == devices[pushTokens[t].deviceId].userId

\* Whether the deviceId, resp. the push token, that a request names is bound
\* to a user other than the caller when the handler looks it up.  The
\* request carries the answer along as claimsForeign.
ForeignDevice(userId, deviceId) ==
    \E d \in DeviceByDeviceId(deviceId) : devices[d].userId # userId

ForeignToken(userId, token) ==
    \E t \in TokenByToken(token) : TokenOwner(t) # userId

\* A finished request also keeps whether one of its statements changed a row
\* of the store (wrote).
RegisterDone(r, resp, foreign, wrote) ==
    [reqs EXCEPT ![r] = [pc |-> "done", kind |-> "register", resp |-> resp,
                         claimsForeign |-> foreign, wrote |-> wrote]]

\* Lines 20-62: authentication, rate limit, validation, the device upsert
\* and the ownership check that follows it.
RegisterStart(r, bodies) ==
    \E header \in NoAuth \cup {Bearer(u) : u \in DOMAIN users},
       body \in bodies :
        LET auth == verifyAuth(header)
            rl == rateLimit(RateKey("device_register", auth.userId),
                            RegisterLimit, RegisterWindow)
            upserted == RegisterUpsertDevice(auth.userId, body)
            d == CHOOSE d \in DOMAIN upserted :
                    upserted[d].deviceId = body.deviceId
            foreign == ForeignDevice(auth.userId, body.deviceId)
        IN  /\ MayStart(r)
            /\ IF ~auth.ok
               THEN /\ reqs' = RegisterDone(r, RegisterCatch(auth.error), FALSE,
                                                    FALSE)
                    /\ UNCHANGED <<devices, zset, zcounter>>
               ELSE /\ zset' = rl.zset
                    /\ zcounter' = rl.zcounter
                    /\ IF ~rl.success
                       THEN /\ reqs' = RegisterDone(r, [status |-> 429,
                                  error |-> "Too many requests"], FALSE, FALSE)
                            /\ UNCHANGED devices
                       ELSE IF ~RegisterDeviceSchemaOk(body)
                       THEN /\ reqs' = RegisterDone(r, RegisterCatch("ZodError"),
                                                    FALSE, FALSE)
                            /\ UNCHANGED devices
                       ELSE /\ DeviceIdFree(r, body.deviceId)
                            /\ devices' = upserted
                            /\ reqs' =
                                 IF BelongsToAnother(upserted[d].userId, auth.userId)
                                 THEN RegisterDone(r,
                                        RegisterCatch("Device belongs to another user"),
                                        foreign, upserted # devices)
                                 ELSE IF body.pushToken = ""
                                 THEN RegisterDone(r,
                                        [status |-> 200, deviceId |-> d], foreign,
                                        upserted # devices)
                                 ELSE [reqs EXCEPT ![r] =
                                        [pc |-> "reg_find", kind |-> "register",
                                         userId |-> auth.userId, device |-> d,
                                         pushToken |-> body.pushToken,
                                         platform |-> body.info.platform,
                                         claimsForeign |-> foreign,
                                         wrote |-> upserted # devices]]
            /\ UNCHANGED <<users, pushTokens, commands, telemetry, subscriptions,
                           signatures, scanLogs, quarantine, adminAuditLog, cache, redisUp, now>>

\* Lines 63-71: the transaction's findUnique of the token and its check.
RegisterFindToken(r) ==
    /\ reqs[r].pc = "reg_find"
    /\ reqs' =
         IF \E t \in TokenByToken(reqs[r].pushToken) :
                BelongsToAnother(TokenOwner(t), reqs[r].userId)
         THEN RegisterDone(r, RegisterCatch("Push token belongs to another user"),
                           ForeignToken(reqs[r].userId, reqs[r].pushToken),
                           reqs[r].wrote)
         ELSE [reqs EXCEPT ![r] =
                 [@ EXCEPT !.pc = "reg_upsert",
                           !.claimsForeign =
                               ForeignToken(reqs[r].userId, reqs[r].pushToken)]]
    /\ UNCHANGED <<store, redis, now>>

\* Lines 73-92: the token upsert, the commit and the response.
RegisterUpsert(r) ==
    /\ reqs[r].pc = "reg_upsert"
    /\ pushTokens' = RegisterUpsertToken(reqs[r].pushToken, reqs[r].device,
                                         reqs[r].platform)
    /\ reqs' = RegisterDone(r, [status |-> 200, deviceId |-> reqs[r].device],
                            reqs[r].claimsForeign,
                            reqs[r].wrote \/ pushTokens' # pushTokens)
    /\ UNCHANGED <<users, devices, commands, telemetry, subscriptions,
                   signatures, scanLogs, quarantine, adminAuditLog, redis, now>>

(***************************************************************************)
(* Subscription rows                                                       *)
(***************************************************************************)
\* 7 * 24 * 60 * 60 * 1000
TrialMs == 604800000

SubscriptionRow(userId, tier, status, platform, subId, receipt, trialEnd, from, to, at) ==
    [userId |-> userId, tier |-> tier, status |-> status, platform |-> platform,
     platformSubId |-> subId, receiptData |-> receipt, trialEndsAt |-> trialEnd,
     currentPeriodStart |-> from, currentPeriodEnd |-> to,
     createdAt |-> at, updatedAt |-> at]

\* The trial row that registration, login and provider sign-in create.
TrialRow(userId, platform) ==
    SubscriptionRow(userId, "free", "trial", platform, "", "", now + TrialMs,
                    now, now + TrialMs, now)

\* where: { userId, status: { in: ['active', 'trial'] } }
ActiveOrTrial(userId) ==
    {s \in DOMAIN subscriptions :
        /\ subscriptions[s].userId = userId
        /\ subscriptions[s].status \in {"active", "trial"}}

(***************************************************************************)
(* app/api/auth/email-login/route.ts, lines 30-210                         *)
(***************************************************************************)
LoginLimit == 5
LoginWindow == 900

\* ratelimit.limit(identifier) of the sliding-window limiter constructed in
\* lines 30-33 (5 attempts per 15 minutes), kept as a log of the accepted
\* attempts of the window.
loginRatelimit(identifier) ==
    rateLimit(RateKey("email_login", identifier), LoginLimit, LoginWindow)

\* bcrypt.hash; bcrypt.compare(password, hash) is hash = bcryptHash(password).
bcryptHash(password) ==
    CASE password = "secret-b" -> "$2b$10$b"
      [] password = "secret-c" -> "$2b$10$c"
      [] OTHER -> "$2b$10$other"

IsEmail(str) == str \in {"a@example.com", "b@example.com", "c@example.com"}

EmailLoginSchemaOk(body) ==
    /\ IsEmail(body.email)
    /\ body.password # ""
    /\ body.info.platform \in {"ios", "android"}

\* prisma.device.upsert of lines 106-121: looked up by deviceId alone; an
\* existing row keeps its userId and its deviceName.
LoginUpsertDevice(userId, body) ==
    IF DeviceByDeviceId(body.deviceId) # {}
    THEN LET d == CHOOSE d \in DeviceByDeviceId(body.deviceId) : TRUE
         IN  [devices EXCEPT ![d] =
                [@ EXCEPT !.lastSeen = now,
                          !.osVersion = body.info.osVersion,
                          !.appVersion = body.info.appVersion]]
    ELSE Append(devices, DeviceRow(body.deviceId, userId, body.info, now))

\* Lines 35-121: rate limit, validation, user lookup, password check and the
\* device upsert.
LoginStart(r, identifiers, bodies) ==
    \E identifier \in identifiers, body \in bodies :
        LET rl == loginRatelimit(identifier)
            found == UserByEmail(body.email)
            u == CHOOSE u \in found : TRUE
            upserted == LoginUpsertDevice(u, body)
            invalid == [status |-> 401, error |-> "Invalid email or password"]
        IN  /\ MayStart(r)
            /\ zset' = rl.zset
            /\ zcounter' = rl.zcounter
            /\ IF ~rl.success
               THEN /\ reqs' = Respond(r, "login", [status |-> 429,
                                       error |-> "Too many login attempts"])
                    /\ UNCHANGED devices
               ELSE IF ~EmailLoginSchemaOk(body)
               THEN /\ reqs' = Respond(r, "login", [status |-> 400,
                                       error |-> "Invalid request data"])
                    /\ UNCHANGED devices
               ELSE IF found = {}
               THEN /\ reqs' = Respond(r, "login", invalid)
                    /\ UNCHANGED devices
               ELSE IF users[u].passwordHash = ""
               THEN /\ reqs' = Respond(r, "login", invalid)
                    /\ UNCHANGED devices
               ELSE IF users[u].passwordHash # bcryptHash(body.password)
               THEN /\ reqs' = Respond(r, "login", invalid)
                    /\ UNCHANGED devices
               ELSE /\ EmailFree(r, body.email)
                    /\ DeviceIdFree(r, body.deviceId)
                    /\ devices' = upserted
                    /\ reqs' = [reqs EXCEPT ![r] =
                          [pc |-> "login_sub", kind |-> "login", userId |-> u,
                           platform |-> body.info.platform,
                           device |-> CHOOSE d \in DOMAIN upserted :
                                        upserted[d].deviceId = body.deviceId]]
            /\ UNCHANGED <<users, pushTokens, commands, telemetry, subscriptions,
                           signatures, scanLogs, quarantine, adminAuditLog, cache, redisUp, now>>

LoginResponse(r, s) ==
    [status |-> 200, userId |-> reqs[r].userId, device |-> reqs[r].device,
     tier |-> s.tier, subscriptionStatus |-> s.status]

\* Lines 123-129 and, when a row is found, lines 146-188.
LoginFindSubscription(r) ==
    /\ reqs[r].pc = "login_sub"
    /\ IF ActiveOrTrial(reqs[r].userId) = {}
       THEN /\ reqs' = [reqs EXCEPT ![r].pc = "login_create"]
            /\ UNCHANGED telemetry
       ELSE \E s \in ActiveOrTrial(reqs[r].userId) :
                /\ telemetry' = Append(telemetry,
                      TelemetryRow(reqs[r].userId, "email_login", reqs[r].device))
                /\ reqs' = Respond(r, "login", LoginResponse(r, subscriptions[s]))
    /\ UNCHANGED <<users, devices, pushTokens, commands, subscriptions,
                   signatures, scanLogs, quarantine, adminAuditLog, redis, now>>

\* Lines 131-188: the trial row is created outside any transaction.
LoginCreateTrial(r) ==
    /\ reqs[r].pc = "login_create"
    /\ subscriptions' = Append(subscriptions,
                               TrialRow(reqs[r].userId, reqs[r].platform))
    /\ telemetry' = Append(telemetry,
          TelemetryRow(reqs[r].userId, "email_login", reqs[r].device))
    /\ reqs' = Respond(r, "login",
                       LoginResponse(r, TrialRow(reqs[r].userId, reqs[r].platform)))
    /\ UNCHANGED <<users, devices, pushTokens, commands, signatures, scanLogs,
                   quarantine, adminAuditLog, redis, now>>

(***************************************************************************)
(* app/api/auth/email-register/route.ts (src/unnamed/part_006)             *)
(***************************************************************************)
\* password is min(8), name min(2); the name is not kept in the model.
EmailRegisterSchemaOk(body) ==
    /\ IsEmail(body.email)
    /\ body.password \in {"secret-b", "secret-c"}
    /\ body.info.platform \in {"ios", "android"}

\* Lines 31-47: validation and the lookup that answers 409.
EmailRegisterStart(r, bodies) ==
    \E body \in bodies :
        /\ MayStart(r)
        /\ reqs' =
             IF ~EmailRegisterSchemaOk(body)
             THEN Respond(r, "email_register",
                          [status |-> 400, error |-> "Invalid request data"])
             ELSE IF UserByEmail(body.email) # {}
             THEN Respond(r, "email_register",
                          [status |-> 409, error |-> "Email already registered"])
             ELSE [reqs EXCEPT ![r] = [pc |-> "ereg_tx", kind |-> "email_register",
                                       body |-> body]]
        /\ UNCHANGED <<store, redis, now>>

\* The three creations without a transaction: a deviceId that is taken stops
\* the handler after the user row has been written.
M_EmailRegisterWithoutTransaction(r) ==
    LET body == reqs[r].body
        u == Len(users) + 1
        d == Len(devices) + 1
    IN  /\ reqs[r].pc = "ereg_tx"
        /\ IF UserByEmail(body.email) # {}
           THEN /\ reqs' = Respond(r, "email_register",
                              [status |-> 500, error |-> "Registration failed"])
                /\ UNCHANGED <<users, devices, subscriptions, telemetry>>
           ELSE IF DeviceByDeviceId(body.deviceId) # {}
           THEN /\ users' = Append(users, UserRow(body.email, "email", "",
                                                  bcryptHash(body.password)))
                /\ reqs' = Respond(r, "email_register",
                              [status |-> 500, error |-> "Registration failed"])
                /\ UNCHANGED <<devices, subscriptions, telemetry>>
           ELSE /\ users' = Append(users, UserRow(body.email, "email", "",
                                                  bcryptHash(body.password)))
                /\ devices' = Append(devices,
                                     DeviceRow(body.deviceId, u, body.info, now))
                /\ subscriptions' = Append(subscriptions,
                                           TrialRow(u, body.info.platform))
                /\ telemetry' = Append(telemetry,
                                       TelemetryRow(u, "email_register", d))
                /\ reqs' = Respond(r, "email_register",
                              [status |-> 201, userId |-> u, device |-> d,
                               tier |-> "free", subscriptionStatus |-> "trial"])
        /\ UNCHANGED <<pushTokens, commands, signatures, scanLogs, quarantine,
                       adminAuditLog, redis, now>>

\* Lines 51-139: the transaction (user, device, trial subscription), the
\* telemetry row and the response.  A unique violation on the email or on
\* the deviceId aborts the transaction and is answered by the catch block.
EmailRegisterTransaction(r) ==
    LET body == reqs[r].body
        u == Len(users) + 1
        d == Len(devices) + 1
    IN  /\ reqs[r].pc = "ereg_tx"
        /\ EmailFree(r, body.email)
        /\ IF UserByEmail(body.email) # {} THEN TRUE
           ELSE DeviceIdFree(r, body.deviceId)
        /\ IF UserByEmail(body.email) # {}
           THEN /\ reqs' = Respond(r, "email_register",
                              [status |-> 500, error |-> "Registration failed"])
                /\ UNCHANGED <<users, devices, subscriptions, telemetry>>
           ELSE IF DeviceByDeviceId(body.deviceId) # {}
           THEN /\ reqs' = Respond(r, "email_register",
                              [status |-> 500, error |-> "Registration failed"])
                /\ UNCHANGED <<users, devices, subscriptions, telemetry>>
           ELSE /\ users' = Append(users, UserRow(body.email, "email", "",
                                                  bcryptHash(body.password)))
                /\ devices' = Append(devices,
                                     DeviceRow(body.deviceId, u, body.info, now))
                /\ subscriptions' = Append(subscriptions,
                                           TrialRow(u, body.info.platform))
                /\ telemetry' = Append(telemetry,
                                       TelemetryRow(u, "email_register", d))
                /\ reqs' = Respond(r, "email_register",
                              [status |-> 201, userId |-> u, device |-> d,
                               tier |-> "free", subscriptionStatus |-> "trial"])
        /\ UNCHANGED <<pushTokens, commands, signatures, scanLogs, quarantine, adminAuditLog,
                       redis, now>>

(***************************************************************************)
(* app/api/auth/verify/route.ts (src/unnamed/part_005, lines 92-317)       *)
(***************************************************************************)
\* An ID token is modelled by what its verification yields: whether the
\* signature checks out, and the email and subject it carries.
verifyProviderToken(token, provider) ==
    IF provider \notin {"google", "apple"}
    THEN [ok |-> FALSE, error |-> "Unsupported provider"]
    ELSE IF ~token.genuine
    THEN [ok |-> FALSE, error |-> "Invalid ID token"]
    ELSE IF provider = "google" /\ token.email = ""
    THEN [ok |-> FALSE, error |-> "Google token verification failed"]
    ELSE [ok |-> TRUE, email |-> token.email, providerId |-> token.sub]

\* idToken is z.string().min(1), provider one of google, apple, email.
VerifySchemaOk(body) ==
    /\ body.provider \in {"google", "apple", "email"}
    /\ body.info.platform \in {"ios", "android"}

\* The catch block: everything but a validation error is a 401.
VerifyCatch(error) ==
    IF error = "ZodError"
    THEN [status |-> 400, error |-> "Invalid request data"]
    ELSE [status |-> 401, error |-> "Authentication failed"]

\* tx.device.upsert of lines 167-183: an existing row gets the caller's id.
VerifyUpsertDevice(userId, deviceId, info) ==
    IF DeviceByDeviceId(deviceId) # {}
    THEN LET d == CHOOSE d \in DeviceByDeviceId(deviceId) : TRUE
         IN  [devices EXCEPT ![d] =
                [@ EXCEPT !.userId = userId,
                          !.lastSeen = now,
                          !.osVersion = info.osVersion,
                          !.appVersion = info.appVersion]]
    ELSE Append(devices, DeviceRow(deviceId, userId, info, now))

\* The rows the transaction leaves when it commits.  userId 0 stands for the
\* user row the transaction itself creates.
VerifyCommit(l, withTrial) ==
    LET isNew == l.userId = 0
        u == IF isNew THEN Len(users) + 1 ELSE l.userId
        newDevices == VerifyUpsertDevice(u, l.deviceId, l.info)
    IN  [users |-> IF isNew
                   THEN Append(users, UserRow(l.email, l.provider, l.providerId, ""))
                   ELSE users,
         devices |-> newDevices,
         subscriptions |-> IF withTrial
                           THEN Append(subscriptions, TrialRow(u, l.info.platform))
                           ELSE subscriptions,
         userId |-> u,
         device |-> CHOOSE d \in DOMAIN newDevices :
                        newDevices[d].deviceId = l.deviceId]

\* A sign-in that accepts any provider identity for a known email.
M_ProviderIdMismatch(authProviderId, providerId) == FALSE

\* Line 154: user.authProviderId !== providerId
ProviderIdMismatch(authProviderId, providerId) == authProviderId # providerId

\* A finished sign-in keeps, next to its response, the identity its token
\* was verified for (empty when the token was not verified).
VerifyDone(r, resp, email, providerId) ==
    [reqs EXCEPT ![r] = [pc |-> "done", kind |-> "verify", resp |-> resp,
                         email |-> email, providerId |-> providerId]]

\* Lines 119-165: validation, token verification, then inside the
\* transaction the user upsert, the provider-id check, the device lookup and
\* the device ownership check.
VerifyStart(r, bodies) ==
    \E body \in bodies :
        LET verified == verifyProviderToken(body.idToken, body.provider)
            found == UserByEmail(verified.email)
            u == IF found = {} THEN 0 ELSE CHOOSE u \in found : TRUE
            existingDevice == DeviceByDeviceId(body.deviceId)
        IN  /\ MayStart(r)
            /\ reqs' =
                 IF ~VerifySchemaOk(body)
                 THEN VerifyDone(r, VerifyCatch("ZodError"), "", "")
                 ELSE IF ~verified.ok
                 THEN VerifyDone(r, VerifyCatch(verified.error), "", "")
                 ELSE IF verified.email = ""
                 THEN VerifyDone(r,
                              VerifyCatch("Failed to verify identity token"),
                              verified.email, verified.providerId)
                 ELSE IF verified.providerId = ""
                 THEN VerifyDone(r,
                              VerifyCatch("Failed to verify identity token"),
                              verified.email, verified.providerId)
                 ELSE IF u # 0 /\ ProviderIdMismatch(users[u].authProviderId,
                                                     verified.providerId)
                 THEN VerifyDone(r, VerifyCatch("Provider ID mismatch"),
                                 verified.email, verified.providerId)
                 ELSE IF \E d \in existingDevice : devices[d].userId # u
                 THEN VerifyDone(r,
                              VerifyCatch("Device belongs to another user"),
                              verified.email, verified.providerId)
                 ELSE [reqs EXCEPT ![r] =
                        [pc |-> "ver_device", kind |-> "verify", userId |-> u,
                         email |-> verified.email, provider |-> body.provider,
                         providerId |-> verified.providerId,
                         deviceId |-> body.deviceId, info |-> body.info]]
            /\ IF VerifySchemaOk(body) /\ verified.ok
               THEN EmailFree(r, verified.email) ELSE TRUE
            /\ UNCHANGED <<store, redis, now>>

\* Lines 167-189: the device upsert and the subscription lookup; when a row
\* is found the transaction commits and the response is sent.
VerifyUpsertDeviceStep(r) ==
    LET l == reqs[r]
        commit == VerifyCommit(l, FALSE)
    IN  /\ l.pc = "ver_device"
        /\ DeviceIdFree(r, l.deviceId)
        /\ IF l.userId = 0
           THEN /\ reqs' = [reqs EXCEPT ![r].pc = "ver_sub"]
                /\ UNCHANGED <<users, devices>>
           ELSE IF ActiveOrTrial(l.userId) = {}
           THEN /\ reqs' = [reqs EXCEPT ![r].pc = "ver_sub"]
                /\ UNCHANGED <<users, devices>>
           ELSE \E s \in ActiveOrTrial(l.userId) :
                    /\ users' = commit.users
                    /\ devices' = commit.devices
                    /\ reqs' = VerifyDone(r,
                          [status |-> 200, userId |-> commit.userId,
                           device |-> commit.device,
                           tier |-> subscriptions[s].tier,
                           subscriptionStatus |-> subscriptions[s].status],
                          l.email, l.providerId)
        /\ UNCHANGED <<pushTokens, commands, telemetry, subscriptions,
                       signatures, scanLogs, quarantine, adminAuditLog, redis, now>>

\* Lines 191-206 and 208-229: the trial row, the commit and the response.
VerifyCreateTrial(r) ==
    LET commit == VerifyCommit(reqs[r], TRUE)
    IN  /\ reqs[r].pc = "ver_sub"
        /\ users' = commit.users
        /\ devices' = commit.devices
        /\ subscriptions' = commit.subscriptions
        /\ reqs' = VerifyDone(r,
              [status |-> 200, userId |-> commit.userId,
               device |-> commit.device, tier |-> "free",
               subscriptionStatus |-> "trial"],
              reqs[r].email, reqs[r].providerId)
        /\ UNCHANGED <<pushTokens, commands, telemetry, signatures, scanLogs,
                       quarantine, adminAuditLog, redis, now>>

(***************************************************************************)
(* Device and push-token binding: device/register, email-login,           *)
(* email-register and auth/verify requests of several users               *)
(***************************************************************************)
MaxBindReqs == 2

BindRegisterBodies ==
    {[deviceId |-> "dev-1", pushToken |-> "tok-9", info |-> Info2],
     [deviceId |-> "dev-2", pushToken |-> "tok-9", info |-> Info2],
     [deviceId |-> "dev-2", pushToken |-> "tok-1", info |-> Info2],
     [deviceId |-> "dev-9", pushToken |-> "", info |-> Info2],
     [deviceId |-> "", pushToken |-> "", info |-> Info2]}

BindLoginBodies ==
    LET Body(email, password, deviceId) ==
            [email |-> email, password |-> password, deviceId |-> deviceId,
             info |-> Info2]
    IN  {Body("b@example.com", "secret-b", "dev-1"),
         Body("b@example.com", "secret-b", "dev-9"),
         Body("b@example.com", "wrong", "dev-2"),
         Body("a@example.com", "secret-b", "dev-1"),
         Body("nobody", "secret-b", "dev-2")}

BindRegisterEmailBodies ==
    LET Body(email, password, deviceId) ==
            [email |-> email, password |-> password, deviceId |-> deviceId,
             info |-> Info2]
    IN  {Body("c@example.com", "secret-c", "dev-9"),
         Body("c@example.com", "secret-c", "dev-1"),
         Body("b@example.com", "secret-c", "dev-9"),
         Body("c@example.com", "short", "dev-9")}

BindVerifyBodies ==
    LET Body(genuine, email, sub, provider, deviceId) ==
            [idToken |-> [genuine |-> genuine, email |-> email, sub |-> sub],
             provider |-> provider, deviceId |-> deviceId, info |-> Info2]
    IN  {Body(TRUE, "a@example.com", "google-a", "google", "dev-9"),
         Body(TRUE, "a@example.com", "google-a", "google", "dev-2"),
         Body(TRUE, "c@example.com", "google-c", "google", "dev-9"),
         Body(TRUE, "b@example.com", "google-b", "google", "dev-2"),
         Body(TRUE, "a@example.com", "apple-a", "apple", "dev-1"),
         Body(FALSE, "a@example.com", "google-a", "google", "dev-1"),
         Body(TRUE, "a@example.com", "google-a", "email", "dev-1")}

InitBind ==
    /\ users = SeedUsers
    /\ devices = <<DeviceRow("dev-1", 1, Info1, StartTime),
                   DeviceRow("dev-2", 2, Info1, StartTime)>>
    /\ pushTokens = <<TokenRow("tok-1", 1, "fcm", TRUE)>>
    /\ InitStoreEmpty
    /\ cache = <<>>
    /\ redisUp = TRUE
    /\ zset \in [{RateKey("device_register", u) :
                     u \in 1..(Len(SeedUsers) + MaxBindReqs)}
                 \cup {RateKey("email_login", 1)} -> {{}}]
    /\ zcounter = [k \in DOMAIN zset |-> 0]
    /\ now = StartTime
    /\ reqs = [r \in 1..MaxBindReqs |-> Idle]

NextBind ==
    \/ \E r \in Reqs : RegisterStart(r, BindRegisterBodies)
    \/ \E r \in Reqs : RegisterFindToken(r)
    \/ \E r \in Reqs : RegisterUpsert(r)
    \/ \E r \in Reqs : LoginStart(r, {1}, BindLoginBodies)
    \/ \E r \in Reqs : LoginFindSubscription(r)
    \/ \E r \in Reqs : LoginCreateTrial(r)
    \/ \E r \in Reqs : EmailRegisterStart(r, BindRegisterEmailBodies)
    \/ \E r \in Reqs : EmailRegisterTransaction(r)
    \/ \E r \in Reqs : VerifyStart(r, BindVerifyBodies)
    \/ \E r \in Reqs : VerifyUpsertDeviceStep(r)
    \/ \E r \in Reqs : VerifyCreateTrial(r)

SpecBind == InitBind /\ [][NextBind]_vars

AdminEmails == {"a@example.com"}

checkAdminStatus(userId) ==
    IF userId \notin DOMAIN users THEN FALSE
    ELSE IF users[userId].role = "admin" THEN TRUE
    ELSE users[userId].email \in AdminEmails

\* threats is an array of 1 to 1000 entries, version a positive integer.
ThreatUploadSchemaOk(body) ==
    /\ Len(body.threats) >= 1
    /\ \A i \in DOMAIN body.threats :
        /\ body.threats[i].type \in {"hash", "package", "url", "behavior"}
        /\ body.threats[i].signature # ""
        /\ body.threats[i].threatName # ""
    /\ body.version > 0

ToUpperCase(str) ==
    CASE str = "hash" -> "HASH" [] str = "package" -> "PACKAGE"
      [] str = "url" -> "URL" [] str = "behavior" -> "BEHAVIOR"
      [] str = "low" -> "LOW" [] str = "medium" -> "MEDIUM"
      [] str = "high" -> "HIGH" [] str = "critical" -> "CRITICAL"
      [] OTHER -> str

\* An upsert whose update branch leaves the stored row as it is.
M_UpsertSignatureCreateOnly(rows, threat, version) ==
    LET row == [type |-> ToUpperCase(threat.type),
                signature |-> threat.signature,
                threatName |-> threat.threatName, version |-> version,
                isActive |-> TRUE]
        found == {i \in DOMAIN rows : rows[i].signature = threat.signature}
    IN  IF found = {} THEN Append(rows, row) ELSE rows

\* tx.threatSignature.upsert of lines 52-76, for one entry of the batch.
UpsertSignature(rows, threat, version) ==
    LET row == [type |-> ToUpperCase(threat.type),
                signature |-> threat.signature,
                threatName |-> threat.threatName, version |-> version,
                isActive |-> TRUE]
        found == {i \in DOMAIN rows : rows[i].signature = threat.signature}
    IN  IF found = {} THEN Append(rows, row)
        ELSE [rows EXCEPT ![CHOOSE i \in found : TRUE] = row]

RECURSIVE UpsertThreats(_, _, _)
UpsertThreats(rows, threats, version) ==
    IF threats = <<>> THEN rows
    ELSE UpsertThreats(UpsertSignature(rows, Head(threats), version),
                       Tail(threats), version)

\* A finished upload keeps, next to its response, the caller (0 when the
\* token was refused) and the batch it sent.
UploadDone(r, userId, threats, resp) ==
    [reqs EXCEPT ![r] = [pc |-> "done", kind |-> "upload", resp |-> resp,
                         userId |-> userId, threats |-> threats]]

\* The whole handler: the transaction only writes, so its upserts, its audit
\* row and its commit take effect at once.
ThreatUploadPOST(r, bodies) ==
    \E header \in NoAuth \cup {Bearer(u) : u \in DOMAIN users},
       body \in bodies :
        LET auth == verifyAuth(header)
        IN  /\ MayStart(r)
            /\ IF ~auth.ok
               THEN /\ reqs' = UploadDone(r, 0, body.threats,
                          [status |-> 500, error |-> "Threat upload failed"])
                    /\ UNCHANGED <<signatures, adminAuditLog>>
               ELSE IF ~checkAdminStatus(auth.userId)
               THEN /\ reqs' = UploadDone(r, auth.userId, body.threats,
                          [status |-> 403, error |-> "Unauthorized"])
                    /\ UNCHANGED <<signatures, adminAuditLog>>
               ELSE IF ~ThreatUploadSchemaOk(body)
               THEN /\ reqs' = UploadDone(r, auth.userId, body.threats, [status |-> 400,
                          error |-> "Invalid request data. Please check the input and try again."])
                    /\ UNCHANGED <<signatures, adminAuditLog>>
               ELSE /\ signatures' = UpsertThreats(signatures, body.threats,
                                                   body.version)
                    /\ adminAuditLog' = Append(adminAuditLog,
                          [adminId |-> auth.userId, action |-> "THREAT_UPLOAD",
                           version |-> body.version,
                           totalThreats |-> Len(body.threats),
                           successful |-> Len(body.threats), failed |-> 0])
                    /\ reqs' = UploadDone(r, auth.userId, body.threats,
                          [status |-> 200, uploaded |-> Len(body.threats),
                           failed |-> 0, version |-> body.version])
            /\ UNCHANGED <<users, devices, pushTokens, commands, telemetry,
                           subscriptions, scanLogs, quarantine, redis, now>>

(***************************************************************************)
(* app/api/scan/hash-check/route.ts                                        *)
(***************************************************************************)
HashCheckLimit == 50
HashCheckWindow == 60
CacheTtl == 3600

\* A SHA-256 digest in hex has 64 characters; the model's digests are the
\* names h1, h2, and "short" stands for a string of another length.
HashCheckSchemaOk(body) ==
    /\ Len(body.hashes) >= 1
    /\ Len(body.hashes) <= 100
    /\ \A i \in DOMAIN body.hashes : body.hashes[i] \in {"h1", "h2"}

\* where: { signature: { in: ... }, type: 'HASH', isActive: true }
ActiveHashSignature(hash) ==
    {i \in DOMAIN signatures :
        /\ signatures[i].signature = hash
        /\ signatures[i].type = "HASH"
        /\ signatures[i].isActive}

\* A key of the cache that has not expired.
Cached(hash) ==
    IF hash \in DOMAIN cache THEN cache[hash].expiresAt > now ELSE FALSE

\* Lines 107-123: the ThreatResult of one hash the store was asked about.
ThreatResult(hash) ==
    IF ActiveHashSignature(hash) # {}
    THEN [hash |-> hash, isThreat |-> TRUE,
          threatName |->
            signatures[CHOOSE i \in ActiveHashSignature(hash) : TRUE].threatName]
    ELSE [hash |-> hash, isThreat |-> FALSE, threatName |-> ""]

threatsFound(results) ==
    Cardinality({i \in DOMAIN results : results[i].isThreat})

\* The catch block.
HashCheckCatch(error) ==
    IF error = "ZodError"
    THEN [status |-> 400, error |-> "Invalid request data"]
    ELSE [status |-> 500, error |-> "Hash check failed"]

\* A finished hash-check keeps, next to its response, the batch it was sent,
\* the hashes of the batch that were active HASH signatures when it arrived
\* and whether every cache operation it made failed.
HashCheckDone(r, resp, hashes, known, cacheDown) ==
    [reqs EXCEPT ![r] = [pc |-> "done", kind |-> "hash_check", resp |-> resp,
                         hashes |-> hashes, known |-> known,
                         cacheDown |-> cacheDown]]

\* Lines 131-154: the telemetry row when a threat was found, the response.
HashCheckRespond(r, l, results, cacheDown) ==
    /\ telemetry' =
         IF threatsFound(results) > 0
         THEN Append(telemetry,
                     TelemetryRow(l.userId, "threats_detected", l.device))
         ELSE telemetry
    /\ reqs' = HashCheckDone(r, [status |-> 200, results |-> results,
                                 scanned |-> Len(l.hashes),
                                 threatsFound |-> threatsFound(results)],
                             l.hashes, l.known, cacheDown)

\* Lines 31-59: authentication, rate limit, validation, device ownership.
HashCheckStart(r, bodies) ==
    \E header \in NoAuth \cup {Bearer(u) : u \in DOMAIN users},
       body \in bodies :
        LET auth == verifyAuth(header)
            rl == rateLimit(RateKey("hash_check", auth.userId),
                            HashCheckLimit, HashCheckWindow)
            known == {body.hashes[i] : i \in DOMAIN body.hashes}
                        \cap {signatures[i].signature : i \in
                                {j \in DOMAIN signatures :
                                    /\ signatures[j].type = "HASH"
                                    /\ signatures[j].isActive}}
            Fail(resp) == HashCheckDone(r, resp, body.hashes, known, FALSE)
        IN  /\ MayStart(r)
            /\ IF ~auth.ok
               THEN /\ reqs' = Fail(HashCheckCatch(auth.error))
                    /\ UNCHANGED <<zset, zcounter>>
               ELSE IF ~redisUp
               THEN /\ reqs' = Fail(HashCheckCatch("redis.eval failed"))
                    /\ UNCHANGED <<zset, zcounter>>
               ELSE /\ zset' = rl.zset
                    /\ zcounter' = rl.zcounter
                    /\ reqs' =
                         IF ~rl.success
                         THEN Fail([status |-> 429, error |-> "Too many requests"])
                         ELSE IF ~HashCheckSchemaOk(body)
                         THEN Fail(HashCheckCatch("ZodError"))
                         ELSE IF FindOwnedDevice(body.deviceId, auth.userId, FALSE) = {}
                         THEN Fail([status |-> 404, error |-> "Device not found"])
                         ELSE [reqs EXCEPT ![r] =
                                [pc |-> "hash_mget", kind |-> "hash_check",
                                 userId |-> auth.userId, device |-> body.deviceId,
                                 hashes |-> body.hashes, known |-> known]]
            /\ UNCHANGED <<store, cache, redisUp, now>>

\* Lines 64-80: redis.mget; a failure falls back to the store for every hash.
\* With nothing left to look up the handler goes on to its response.
HashCheckCacheRead(r) ==
    LET l == reqs[r]
        Hit(h) == IF redisUp THEN Cached(h) ELSE FALSE
        Miss(h) == ~Hit(h)
        hits == SelectSeq(l.hashes, Hit)
        results == [i \in DOMAIN hits |-> cache[hits[i]].value]
        uncachedHashes == SelectSeq(l.hashes, Miss)
    IN  /\ l.pc = "hash_mget"
        /\ IF uncachedHashes = <<>>
           THEN HashCheckRespond(r, l, results, FALSE)
           ELSE /\ reqs' = [reqs EXCEPT ![r] =
                      [pc |-> "hash_find", kind |-> "hash_check",
                       userId |-> l.userId, device |-> l.device,
                       hashes |-> l.hashes, known |-> l.known,
                       results |-> results, uncachedHashes |-> uncachedHashes,
                       cacheDown |-> ~redisUp]]
                /\ UNCHANGED telemetry
        /\ UNCHANGED <<users, devices, pushTokens, commands, subscriptions,
                       signatures, scanLogs, quarantine, adminAuditLog,
                       redis, now>>

\* Lines 81-126: prisma.threatSignature.findMany and the results built from it.
HashCheckStoreLookup(r) ==
    LET l == reqs[r]
        fresh == [i \in DOMAIN l.uncachedHashes |->
                    ThreatResult(l.uncachedHashes[i])]
    IN  /\ l.pc = "hash_find"
        /\ reqs' = [reqs EXCEPT ![r] =
              [pc |-> "hash_exec", kind |-> "hash_check", userId |-> l.userId,
               device |-> l.device, hashes |-> l.hashes, known |-> l.known,
               results |-> l.results \o fresh, fresh |-> fresh,
               cacheDown |-> l.cacheDown]]
        /\ UNCHANGED <<store, redis, now>>

\* Line 128: pipeline.exec() writes every looked-up result, threat or not,
\* with a one-hour expiry; it is awaited outside the cache's try block.
HashCheckWriteBack(r) ==
    LET l == reqs[r]
        written == {l.fresh[i].hash : i \in DOMAIN l.fresh}
        Last(h) == l.fresh[CHOOSE i \in DOMAIN l.fresh :
                             /\ l.fresh[i].hash = h
                             /\ \A j \in DOMAIN l.fresh :
                                  l.fresh[j].hash = h => j <= i]
    IN  /\ l.pc = "hash_exec"
        /\ IF ~redisUp
           THEN /\ reqs' = HashCheckDone(r, HashCheckCatch("pipeline.exec failed"),
                                         l.hashes, l.known, l.cacheDown)
                /\ UNCHANGED <<cache, telemetry>>
           ELSE /\ cache' = [h \in DOMAIN cache \cup written |->
                               IF h \in written
                               THEN [value |-> Last(h),
                                     expiresAt |-> now + CacheTtl * MsPerSec]
                               ELSE cache[h]]
                /\ HashCheckRespond(r, l, l.results, FALSE)
        /\ UNCHANGED <<users, devices, pushTokens, commands, subscriptions,
                       signatures, scanLogs, quarantine, adminAuditLog,
                       redisUp, zset, zcounter, now>>

(***************************************************************************)
(* The environment: time passes, the cache service fails and recovers      *)
(***************************************************************************)
Tick(stepMs, untilMs) ==
    /\ now + stepMs <= untilMs
    /\ now' = now + stepMs
    /\ UNCHANGED <<store, redis, reqs>>

RedisOutage ==
    /\ redisUp' = ~redisUp
    /\ UNCHANGED <<store, cache, zset, zcounter, now, reqs>>

(***************************************************************************)
(* Threat signatures: uploads and hash checks                              *)
(***************************************************************************)
MaxHashReqs == 3
MaxHashTicks == 1

UploadBodies ==
    LET Threat(type, signature) ==
            [type |-> type, signature |-> signature, threatName |-> "Trojan.A",
             severity |-> "high", category |-> "trojan"]
    IN  {[threats |-> <<Threat("hash", "h1")>>, version |-> 2],
         [threats |-> <<Threat("package", "h2"), Threat("hash", "h1")>>,
          version |-> 3],
         [threats |-> <<>>, version |-> 2]}

HashCheckBodies ==
    {[hashes |-> <<"h1">>, deviceId |-> 2],
     [hashes |-> <<"h2", "h1">>, deviceId |-> 2],
     [hashes |-> <<"short">>, deviceId |-> 2]}

InitHash ==
    /\ users = SeedUsers
    /\ devices = <<DeviceRow("dev-1", 1, Info1, StartTime),
                   DeviceRow("dev-2", 2, Info1, StartTime)>>
    /\ pushTokens = <<>>
    /\ InitStoreEmpty
    /\ cache = <<>>
    /\ redisUp = TRUE
    /\ zset = [k \in {RateKey("hash_check", u) : u \in DOMAIN SeedUsers} |-> {}]
    /\ zcounter = [k \in DOMAIN zset |-> 0]
    /\ now = StartTime
    /\ reqs = [r \in 1..MaxHashReqs |-> Idle]

NextHash ==
    \/ \E r \in Reqs : ThreatUploadPOST(r, UploadBodies)
    \/ \E r \in Reqs : HashCheckStart(r, HashCheckBodies)
    \/ \E r \in Reqs : HashCheckCacheRead(r)
    \/ \E r \in Reqs : HashCheckStoreLookup(r)
    \/ \E r \in Reqs : HashCheckWriteBack(r)
    \/ Tick(CacheTtl * MsPerSec, StartTime + MaxHashTicks * CacheTtl * MsPerSec)
    \/ RedisOutage

SpecHash == InitHash /\ [][NextHash]_vars

\* C5: every hash of a hash-check batch that is an active HASH signature of
\* the store when the request arrives is reported isThreat: true in the
\* request's response, from whichever of cache and store the answer comes.
C5_StoredHashReportedThreat ==
    \A r \in Reqs :
        (/\ reqs[r].pc = "done"
         /\ reqs[r].kind = "hash_check"
         /\ reqs[r].resp.status = 200)
        => \A i \in DOMAIN reqs[r].resp.results :
             reqs[r].resp.results[i].hash \in reqs[r].known
                => reqs[r].resp.results[i].isThreat

\* C6: a hash-check with a valid batch for an owned device, all of whose
\* cache reads and writes fail, is answered 200 with one result per hash.
C6_CacheDownStillAnswers ==
    \A r \in Reqs :
        (/\ reqs[r].pc = "done"
         /\ reqs[r].kind = "hash_check"
         /\ reqs[r].cacheDown)
        => /\ reqs[r].resp.status = 200
           /\ Len(reqs[r].resp.results) = Len(reqs[r].hashes)

(***************************************************************************)
(* The rate limiter in front of a handler, with time passing               *)
(***************************************************************************)
MaxRateReqs == 6
MaxRateTicks == 4
RateLimit == 2
RateWindow == 1
RateStepMs == 500

\* The entry of a rate-limited handler (device/command lines 47-56 with the
\* limit and the window as parameters): the caller is admitted or answered
\* 429.  The finished request keeps its identifier and the time of the call.
RateLimitedRequest(r, limit, window) ==
    \E u \in DOMAIN users :
        LET rl == rateLimit(RateKey("device_command", u), limit, window)
        IN  /\ MayStart(r)
            /\ zset' = rl.zset
            /\ zcounter' = rl.zcounter
            /\ reqs' = [reqs EXCEPT ![r] =
                  [pc |-> "done", kind |-> "rate_limited", identifier |-> u,
                   at |-> now,
                   resp |-> IF rl.success
                            THEN [status |-> 200, remaining |-> rl.remaining]
                            ELSE [status |-> 429, remaining |-> rl.remaining]]]
            /\ UNCHANGED <<store, cache, redisUp, now>>

InitRate ==
    /\ users = SeedUsers
    /\ devices = <<>>
    /\ pushTokens = <<>>
    /\ InitStoreEmpty
    /\ cache = <<>>
    /\ redisUp = TRUE
    /\ zset = [k \in {RateKey("device_command", u) : u \in DOMAIN SeedUsers} |-> {}]
    /\ zcounter = [k \in DOMAIN zset |-> 0]
    /\ now = StartTime
    /\ reqs = [r \in 1..MaxRateReqs |-> Idle]

NextRate ==
    \/ \E r \in Reqs : RateLimitedRequest(r, RateLimit, RateWindow)
    \/ Tick(RateStepMs, StartTime + MaxRateTicks * RateStepMs)

SpecRate == InitRate /\ [][NextRate]_vars

\* The requests of an identifier that were admitted less than window seconds
\* before the present time.
AdmittedWithin(identifier, window) ==
    {q \in Reqs : /\ reqs[q].pc = "done"
                  /\ reqs[q].kind = "rate_limited"
                  /\ reqs[q].identifier = identifier
                  /\ reqs[q].resp.status # 429
                  /\ reqs[q].at + window * MsPerSec > now}

\* C7: a request is answered 429 exactly when N requests of its identifier
\* were admitted within the last W seconds: the N+1st is rejected, a request
\* is admitted again once W seconds have passed since the oldest admitted
\* request of the window, and the rejected requests are not counted.
C7_SlidingWindow ==
    [][\A r \in Reqs :
        (reqs[r].pc = "idle" /\ reqs'[r].pc = "done")
        => ((reqs'[r].resp.status = 429)
             <=> Cardinality(AdmittedWithin(reqs'[r].identifier, RateWindow))
                    >= RateLimit)]_vars

\* An identifier was admitted N times, rejected twice while the window
\* lasted, and admitted again when the window of its first request ended.
C7_Witness ==
    \E a, b, c, d, e \in Reqs :
        /\ Cardinality({a, b, c, d, e}) = 5
        /\ \A q \in {a, b, c, d, e} :
             /\ reqs[q].pc = "done"
             /\ reqs[q].kind = "rate_limited"
             /\ reqs[q].identifier = 1
        /\ reqs[a].resp.status = 200 /\ reqs[a].at = StartTime
        /\ reqs[b].resp.status = 200 /\ reqs[b].at = StartTime + RateStepMs
        /\ reqs[c].resp.status = 429 /\ reqs[c].at = StartTime + RateStepMs
        /\ reqs[d].resp.status = 429 /\ reqs[d].at = StartTime + RateStepMs
        /\ reqs[e].resp.status = 200
        /\ reqs[e].at = StartTime + RateWindow * MsPerSec

(***************************************************************************)
(* app/api/subscription/current/route.ts (src/unnamed/part_003), GET       *)
(***************************************************************************)
\* Line 31: Date.now() + 365 * 24 * 60 * 60 * 1000.  A year from any instant
\* the clock reaches lies beyond the integers TLC can hold, and nothing reads
\* this date but the response: it is kept as the latest instant there is.
YearFromNow == 2^30 + (2^30 - 1)

\* findFirst with orderBy: { updatedAt: 'desc' }: a row of the caller that is
\* active or trial and that no other such row was updated after.
CurrentSubscription(userId) ==
    {s \in ActiveOrTrial(userId) :
        \A t \in ActiveOrTrial(userId) :
            subscriptions[t].updatedAt <= subscriptions[s].updatedAt}

\* A check that takes every trial for ended.
M_isTrialActiveNever(subscription) == FALSE

\* Lines 57-61: the trial found has a trialEndsAt that lies ahead.
isTrialActive(subscription) ==
    IF subscription.status = "trial" /\ subscription.trialEndsAt # 0
    THEN subscription.trialEndsAt > now
    ELSE FALSE

\* The catch block: only the token error is answered 401.
SubscriptionCatch(error) ==
    IF MessageIncludes(error, "Invalid or expired token")
    THEN [status |-> 401, error |-> "Unauthorized"]
    ELSE [status |-> 500, error |-> "Failed to fetch subscription"]

SubscriptionResponse(id, tier, status, premium, trialActive) ==
    [status |-> 200, id |-> id, tier |-> tier, subscriptionStatus |-> status,
     isPremium |-> premium, isTrialActive |-> trialActive]

\* Lines 7-20 and 57-118: authentication, the lookup, and the response when
\* the row found needs no write.
SubscriptionGetStart(r) ==
    \E header \in NoAuth \cup {Bearer(u) : u \in DOMAIN users} :
        LET auth == verifyAuth(header)
        IN  /\ MayStart(r)
            /\ IF ~auth.ok
               THEN reqs' = Respond(r, "subscription", SubscriptionCatch(auth.error))
               ELSE IF CurrentSubscription(auth.userId) = {}
               THEN reqs' = [reqs EXCEPT ![r] =
                       [pc |-> "sub_create", kind |-> "subscription",
                        userId |-> auth.userId]]
               ELSE \E s \in CurrentSubscription(auth.userId) :
                      LET subscription == subscriptions[s]
                      IN  reqs' =
                            IF subscription.status = "trial"
                               /\ ~isTrialActive(subscription)
                            THEN [reqs EXCEPT ![r] =
                                   [pc |-> "sub_expire", kind |-> "subscription",
                                    userId |-> auth.userId, subscription |-> s]]
                            ELSE Respond(r, "subscription",
                                   SubscriptionResponse(s, subscription.tier,
                                      subscription.status,
                                      subscription.tier = "premium"
                                          /\ subscription.status = "active",
                                      isTrialActive(subscription)))
            /\ UNCHANGED <<store, redis, now>>

\* Lines 23-55: no active or trial row was found, a free one is created.
SubscriptionCreateFree(r) ==
    /\ reqs[r].pc = "sub_create"
    /\ subscriptions' = Append(subscriptions,
          SubscriptionRow(reqs[r].userId, "free", "active", "android", "", "",
                          0, now, YearFromNow, now))
    /\ reqs' = Respond(r, "subscription",
          SubscriptionResponse(Len(subscriptions) + 1, "free", "active",
                               FALSE, FALSE))
    /\ UNCHANGED <<users, devices, pushTokens, commands, telemetry, signatures,
                   scanLogs, quarantine, adminAuditLog, redis, now>>

\* Lines 64-89: the trial found has ended, its row is marked expired.
SubscriptionExpireTrial(r) ==
    /\ reqs[r].pc = "sub_expire"
    /\ subscriptions' = [subscriptions EXCEPT ![reqs[r].subscription] =
                            [@ EXCEPT !.status = "expired", !.tier = "free",
                                      !.updatedAt = now]]
    /\ reqs' = Respond(r, "subscription",
          SubscriptionResponse(reqs[r].subscription, "free", "expired",
                               FALSE, FALSE))
    /\ UNCHANGED <<users, devices, pushTokens, commands, telemetry, signatures,
                   scanLogs, quarantine, adminAuditLog, redis, now>>

(***************************************************************************)
(* app/api/payment/verify/route.ts, POST (lines 21-137)                    *)
(***************************************************************************)
PaymentVerifySchemaOk(body) == body.platform \in {"ios", "android"}

\* What the vendor's verification makes of a receipt: whether it is valid,
\* the vendor's subscription id and the expiry (0 when the vendor names none).
verifyReceipt(platform, receiptData) ==
    CASE receiptData = "receipt-1" ->
            [valid |-> TRUE, subscriptionId |-> "sub-1",
             expiryDate |-> StartTime + 2 * TrialMs]
      [] receiptData = "receipt-2" ->
            [valid |-> TRUE, subscriptionId |-> "sub-2",
             expiryDate |-> StartTime + 2 * TrialMs]
      [] receiptData = "receipt-2-renewed" ->
            [valid |-> TRUE, subscriptionId |-> "sub-2",
             expiryDate |-> StartTime + 3 * TrialMs]
      [] receiptData = "receipt-1-renewed" ->
            [valid |-> TRUE, subscriptionId |-> "sub-1",
             expiryDate |-> StartTime + 3 * TrialMs]
      [] receiptData = "receipt-no-expiry" ->
            [valid |-> TRUE, subscriptionId |-> "sub-3", expiryDate |-> 0]
      [] OTHER -> [valid |-> FALSE, subscriptionId |-> "", expiryDate |-> 0]

\* where: { platformSubId }
SubscriptionByPlatformSubId(subId) ==
    {s \in DOMAIN subscriptions : subscriptions[s].platformSubId = subId}

\* Line 61: existing.userId !== user.userId
ExistingOfAnother(ownerId, userId) == ownerId # userId

\* tx.subscription.upsert of lines 65-85: the update leaves userId alone.
PaymentUpsertSubscription(l) ==
    IF SubscriptionByPlatformSubId(l.subscriptionId) # {}
    THEN [subscriptions EXCEPT
            ![CHOOSE s \in SubscriptionByPlatformSubId(l.subscriptionId) : TRUE] =
                [@ EXCEPT !.status = "active", !.tier = "premium",
                          !.currentPeriodStart = now,
                          !.currentPeriodEnd = l.periodEnd,
                          !.receiptData = l.receiptData,
                          !.updatedAt = now]]
    ELSE Append(subscriptions,
                SubscriptionRow(l.userId, "premium", "active", l.platform,
                                l.subscriptionId, l.receiptData, 0, now,
                                l.periodEnd, now))

\* The catch block.
PaymentCatch(error) ==
    IF error = "ZodError"
    THEN [status |-> 400, error |-> "Invalid request data"]
    ELSE [status |-> 500, error |-> "Payment verification failed"]

\* A finished request keeps, next to its response, whether its lookup found
\* the receipt's subscription in a row of another user.
PaymentDone(r, resp, foreign) ==
    [reqs EXCEPT ![r] = [pc |-> "done", kind |-> "payment", resp |-> resp,
                         claimsForeign |-> foreign]]

\* parseInt of a string that does not start with a digit.
NaN == -1

\* Lines 42-63, with the result of the receipt verification: the invalid
\* receipt, the missing expiry (undefined, 0 and NaN are all falsy) and,
\* inside the transaction, the lookup by platformSubId and the owner check.
PaymentAfterVerify(r, userId, body, verificationResult) ==
    LET existing == SubscriptionByPlatformSubId(verificationResult.subscriptionId)
        foreign == \E s \in existing : subscriptions[s].userId # userId
    IN  IF ~verificationResult.valid
        THEN PaymentDone(r, [status |-> 400, error |-> "Invalid receipt"], FALSE)
        ELSE IF verificationResult.expiryDate \in {0, NaN}
        THEN PaymentDone(r, PaymentCatch(
               "Subscription expiry date not available from receipt verification"),
               FALSE)
        ELSE IF \E s \in existing :
                   ExistingOfAnother(subscriptions[s].userId, userId)
        THEN PaymentDone(r, PaymentCatch(
               "Subscription belongs to different user"), foreign)
        ELSE [reqs EXCEPT ![r] =
               [pc |-> "pay_upsert", kind |-> "payment",
                userId |-> userId, platform |-> body.platform,
                receiptData |-> body.receiptData,
                subscriptionId |-> verificationResult.subscriptionId,
                periodEnd |-> verificationResult.expiryDate,
                claimsForeign |-> foreign]]

\* Lines 22-63 with the vendor's answer taken from verifyReceipt.
PaymentStart(r, bodies) ==
    \E header \in NoAuth \cup {Bearer(u) : u \in DOMAIN users},
       body \in bodies :
        LET auth == verifyAuth(header)
        IN  /\ MayStart(r)
            /\ reqs' =
                 IF ~auth.ok
                 THEN PaymentDone(r, PaymentCatch(auth.error), FALSE)
                 ELSE IF ~PaymentVerifySchemaOk(body)
                 THEN PaymentDone(r, PaymentCatch("ZodError"), FALSE)
                 ELSE PaymentAfterVerify(r, auth.userId, body,
                        verifyReceipt(body.platform, body.receiptData))
            /\ UNCHANGED <<store, redis, now>>

\* Lines 65-121: the upsert and the commit, the ownership check on the row
\* the upsert returned, the telemetry row and the response.
PaymentUpsert(r) ==
    LET l == reqs[r]
        upserted == PaymentUpsertSubscription(l)
        s == CHOOSE s \in DOMAIN upserted :
                upserted[s].platformSubId = l.subscriptionId
    IN  /\ l.pc = "pay_upsert"
        /\ subscriptions' = upserted
        /\ IF upserted[s].userId # l.userId
           THEN /\ reqs' = PaymentDone(r,
                      PaymentCatch("Subscription ownership mismatch"),
                      l.claimsForeign)
                /\ UNCHANGED telemetry
           ELSE /\ telemetry' = Append(telemetry,
                      TelemetryRow(l.userId, "subscription_activated", 0))
                /\ reqs' = PaymentDone(r,
                      [status |-> 200, id |-> s, tier |-> upserted[s].tier,
                       subscriptionStatus |-> upserted[s].status,
                       currentPeriodEnd |-> upserted[s].currentPeriodEnd],
                      l.claimsForeign)
        /\ UNCHANGED <<users, devices, pushTokens, commands, signatures,
                       scanLogs, quarantine, adminAuditLog, redis, now>>

(***************************************************************************)
(* Subscriptions: registration, login, provider sign-in, the current       *)
(* subscription and payment verification, with time passing                *)
(***************************************************************************)
MaxSubReqs == 2
MaxSubTicks == 1

PaymentBodies ==
    {[platform |-> "ios", receiptData |-> "receipt-1", productId |-> "premium"],
     [platform |-> "ios", receiptData |-> "receipt-1-renewed",
      productId |-> "premium"],
     [platform |-> "android", receiptData |-> "receipt-2", productId |-> "premium"],
     [platform |-> "android", receiptData |-> "receipt-2-renewed",
      productId |-> "premium"],
     [platform |-> "android", receiptData |-> "receipt-no-expiry",
      productId |-> "premium"],
     [platform |-> "android", receiptData |-> "forged", productId |-> "premium"],
     [platform |-> "web", receiptData |-> "receipt-2", productId |-> "premium"]}

\* User 1 has paid (subscription sub-1), user 2 is in the trial that
\* registration gave them.
InitSub ==
    /\ users = SeedUsers
    /\ devices = <<DeviceRow("dev-1", 1, Info1, StartTime),
                   DeviceRow("dev-2", 2, Info1, StartTime)>>
    /\ pushTokens = <<>>
    /\ commands = <<>>
    /\ telemetry = <<>>
    /\ subscriptions =
         <<SubscriptionRow(1, "premium", "active", "ios", "sub-1", "receipt-1",
                           0, StartTime, StartTime + 2 * TrialMs, StartTime),
           SubscriptionRow(2, "free", "trial", "android", "", "",
                           StartTime + TrialMs, StartTime, StartTime + TrialMs,
                           StartTime)>>
    /\ signatures = <<>>
    /\ scanLogs = <<>>
    /\ quarantine = <<>>
    /\ adminAuditLog = <<>>
    /\ cache = <<>>
    /\ redisUp = TRUE
    /\ zset = [k \in {RateKey("email_login", 1)} |-> {}]
    /\ zcounter = [k \in DOMAIN zset |-> 0]
    /\ now = StartTime
    /\ reqs = [r \in 1..MaxSubReqs |-> Idle]

NextSub ==
    \/ \E r \in Reqs : EmailRegisterStart(r,
            {[email |-> "c@example.com", password |-> "secret-c",
              deviceId |-> "dev-9", info |-> Info2]})
    \/ \E r \in Reqs : EmailRegisterTransaction(r)
    \/ \E r \in Reqs : LoginStart(r, {1},
            {[email |-> "b@example.com", password |-> "secret-b",
              deviceId |-> "dev-2", info |-> Info2]})
    \/ \E r \in Reqs : LoginFindSubscription(r)
    \/ \E r \in Reqs : LoginCreateTrial(r)
    \/ \E r \in Reqs : VerifyStart(r,
            {[idToken |-> [genuine |-> TRUE, email |-> "a@example.com",
                           sub |-> "google-a"],
              provider |-> "google", deviceId |-> "dev-1", info |-> Info2],
             [idToken |-> [genuine |-> TRUE, email |-> "d@example.com",
                           sub |-> "google-d"],
              provider |-> "google", deviceId |-> "dev-8", info |-> Info2]})
    \/ \E r \in Reqs : VerifyUpsertDeviceStep(r)
    \/ \E r \in Reqs : VerifyCreateTrial(r)
    \/ \E r \in Reqs : SubscriptionGetStart(r)
    \/ \E r \in Reqs : SubscriptionCreateFree(r)
    \/ \E r \in Reqs : SubscriptionExpireTrial(r)
    \/ \E r \in Reqs : PaymentStart(r, PaymentBodies)
    \/ \E r \in Reqs : PaymentUpsert(r)
    \/ Tick(TrialMs, StartTime + MaxSubTicks * TrialMs)

SpecSub == InitSub /\ [][NextSub]_vars

\* C8: a payment/verify request whose verified platformSubId belongs, when
\* the request looks it up or when it writes, to a Subscription row of a
\* user other than the caller fails and leaves that row as it was (owner,
\* status, tier, period, receiptData); no step of any request changes the
\* userId of a Subscription row, and a row that payment/verify creates
\* carries the caller's id.
C8_ForeignSubscriptionUntouched ==
    [][/\ \A r \in Reqs :
            (/\ reqs[r].pc # "pay_upsert"
             /\ reqs'[r] # reqs[r]
             /\ reqs'[r].kind = "payment"
             /\ reqs'[r].claimsForeign)
            => /\ reqs'[r].pc = "done"
               /\ reqs'[r].resp.status >= 400
               /\ subscriptions' = subscriptions
       /\ \A r \in Reqs : \A s \in DOMAIN subscriptions :
            (/\ reqs[r].pc = "pay_upsert"
             /\ reqs'[r].pc = "done"
             /\ subscriptions[s].platformSubId = reqs[r].subscriptionId
             /\ subscriptions[s].userId # reqs[r].userId)
            => /\ reqs'[r].resp.status >= 400
               /\ subscriptions'[s] = subscriptions[s]
       /\ \A s \in DOMAIN subscriptions :
            subscriptions'[s].userId = subscriptions[s].userId
       /\ \A r \in Reqs :
            (reqs[r].pc = "pay_upsert" /\ reqs'[r].pc = "done")
            => \A s \in DOMAIN subscriptions' \ DOMAIN subscriptions :
                 subscriptions'[s].userId = reqs[r].userId]_vars

\* C9: every user has at most one Subscription row whose status is active
\* or trial.
C9_OneActiveOrTrialPerUser ==
    \A u \in DOMAIN users : Cardinality(ActiveOrTrial(u)) <= 1

(***************************************************************************)
(* app/api/payment/verify/route.ts: verifyAppleReceipt (lines 139-211) and *)
(* verifyGoogleReceipt (lines 213-264)                                     *)
(***************************************************************************)
\* parseInt(str, 10) on the strings the vendors' answers carry here.
parseInt(str) ==
    CASE str = "0" -> 0
      [] str = "35000000" -> 35000000
      [] str = "640800000" -> 640800000
      [] str = "1245600000" -> 1245600000
      [] OTHER -> NaN

\* str || '0': an absent field and the empty string are both "".
OrZero(str) == IF str = "" THEN "0" ELSE str

\* a > b of two numbers, false when either is NaN.
GreaterThan(a, b) == a # NaN /\ b # NaN /\ a > b

\* A catch block that lets the receipt pass.
M_InvalidReceipt == [valid |-> TRUE, subscriptionId |-> "", expiryDate |-> 0]

\* The catch blocks of lines 205-207 and 260-263.
InvalidReceipt == [valid |-> FALSE, subscriptionId |-> "", expiryDate |-> 0]

\* Lines 181-185: Array.prototype.reduce without an initial value, over a
\* non-empty array.
RECURSIVE latestReceiptOf(_, _)
latestReceiptOf(latest, rest) ==
    IF rest = <<>> THEN latest
    ELSE LET current == Head(rest)
             latestExpiry == parseInt(OrZero(latest.expires_date_ms))
             currentExpiry == parseInt(OrZero(current.expires_date_ms))
         IN  latestReceiptOf(IF GreaterThan(currentExpiry, latestExpiry)
                             THEN current ELSE latest, Tail(rest))

\* original_transaction_id of data.receipt, '' when there is none.
OriginalTransactionId(data) ==
    IF data.receipt.present THEN data.receipt.original_transaction_id ELSE ""

\* Lines 181-192: the result made of the sandbox endpoint's answer; reduce
\* throws on an empty array, which the catch of line 205 answers.  An
\* undefined expiryDate is written 0.
SandboxResult(data) ==
    LET info == data.latest_receipt_info
        latestReceipt == latestReceiptOf(Head(info.entries), Tail(info.entries))
    IN  IF info.present /\ info.entries = <<>>
        THEN InvalidReceipt
        ELSE [valid |-> data.status = 0,
              subscriptionId |-> OriginalTransactionId(data),
              expiryDate |->
                 IF info.present /\ latestReceipt.expires_date_ms # ""
                 THEN parseInt(latestReceipt.expires_date_ms) ELSE 0]

\* Lines 198-204: the result made of the production endpoint's answer.
ProductionResult(data) ==
    LET info == data.latest_receipt_info
    IN  [valid |-> data.status = 0,
         subscriptionId |-> OriginalTransactionId(data),
         expiryDate |->
            IF /\ info.present
               /\ info.entries # <<>>
               /\ info.entries[1].expires_date_ms # ""
            THEN parseInt(info.entries[1].expires_date_ms) ELSE 0]

\* Lines 247-259: the result made of purchases.subscriptions.get's answer.
GoogleResult(receipt, data) ==
    LET expiryTime == parseInt(OrZero(data.expiryTimeMillis))
        isExpired == GreaterThan(now, expiryTime)
        isCancelled == data.cancelled
        isPaymentValid == data.paymentState \in {1, 2, 3}
    IN  [valid |-> isPaymentValid /\ ~isExpired /\ ~isCancelled,
         subscriptionId |-> receipt.purchaseToken,
         expiryDate |-> expiryTime]

\* A production endpoint that never sends the receipt on.
M_SentToProduction(status) == FALSE

\* Line 162: the receipt is from the sandbox but was sent to production.
SentToProduction(status) == status = 21007

\* A request to a vendor: the endpoint, the receipt sent and what came back.
VendorCall(endpoint, receiptData, outcome) ==
    [endpoint |-> endpoint, receiptData |-> receiptData, outcome |-> outcome]

\* The verification is over: the slot keeps the calls made and the result.
Verified(l, calls, result) ==
    [pc |-> "pay_verified", kind |-> "payment", userId |-> l.userId,
     body |-> l.body, env |-> l.env, calls |-> calls, result |-> result]

\* Lines 22-40, 146-148, 216-221 and 236-240: authentication, validation,
\* the choice of the vendor, its credentials in process.env and, for Google,
\* JSON.parse of the receipt and its required fields.
PaymentVerifyStart(r, bodies, envs) ==
    \E header \in NoAuth \cup {Bearer(u) : u \in DOMAIN users},
       body \in bodies, env \in envs :
        LET auth == verifyAuth(header)
            l == [userId |-> auth.userId, body |-> body, env |-> env]
            receipt == body.receiptData
        IN  /\ MayStart(r)
            /\ reqs' =
                 IF ~auth.ok
                 THEN PaymentDone(r, PaymentCatch(auth.error), FALSE)
                 ELSE IF ~PaymentVerifySchemaOk(body)
                 THEN PaymentDone(r, PaymentCatch("ZodError"), FALSE)
                 ELSE IF body.platform = "ios"
                 THEN [reqs EXCEPT ![r] =
                        IF ~env.APPLE_SHARED_SECRET
                        THEN Verified(l, <<>>, InvalidReceipt)
                        ELSE [Verified(l, <<>>, InvalidReceipt)
                                EXCEPT !.pc = "apple_production"]]
                 ELSE [reqs EXCEPT ![r] =
                        IF \/ ~env.GOOGLE_SERVICE_ACCOUNT
                           \/ ~receipt.json
                           \/ receipt.productId = ""
                           \/ receipt.purchaseToken = ""
                        THEN Verified(l, <<>>, InvalidReceipt)
                        ELSE [Verified(l, <<>>, InvalidReceipt)
                                EXCEPT !.pc = "google_get"]]
            /\ UNCHANGED <<store, redis, now>>

\* Lines 149-162 and 198-207: the call to the production endpoint.  A fetch
\* that fails or is aborted, and a body that is no JSON, are caught.
AppleProductionCall(r, outcomes) ==
    \E outcome \in outcomes :
        LET l == reqs[r]
            calls == Append(l.calls,
                        VendorCall("production", l.body.receiptData, outcome))
        IN  /\ l.pc = "apple_production"
            /\ reqs' = [reqs EXCEPT ![r] =
                 IF outcome.kind # "json"
                 THEN Verified(l, calls, InvalidReceipt)
                 ELSE IF SentToProduction(outcome.data.status)
                 THEN [Verified(l, calls, InvalidReceipt)
                         EXCEPT !.pc = "apple_sandbox"]
                 ELSE Verified(l, calls, ProductionResult(outcome.data))]
            /\ UNCHANGED <<store, redis, now>>

\* Lines 164-195: the call to the sandbox endpoint; what it throws reaches
\* the catch of line 205.
AppleSandboxCall(r, outcomes) ==
    \E outcome \in outcomes :
        LET l == reqs[r]
            calls == Append(l.calls,
                        VendorCall("sandbox", l.body.receiptData, outcome))
        IN  /\ l.pc = "apple_sandbox"
            /\ reqs' = [reqs EXCEPT ![r] =
                 IF outcome.kind # "json"
                 THEN Verified(l, calls, InvalidReceipt)
                 ELSE Verified(l, calls, SandboxResult(outcome.data))]
            /\ UNCHANGED <<store, redis, now>>

\* Lines 241-263: purchases.subscriptions.get.
GoogleSubscriptionsGet(r, outcomes) ==
    \E outcome \in outcomes :
        LET l == reqs[r]
            calls == Append(l.calls,
                        VendorCall("androidpublisher", l.body.receiptData, outcome))
        IN  /\ l.pc = "google_get"
            /\ reqs' = [reqs EXCEPT ![r] =
                 IF outcome.kind # "json"
                 THEN Verified(l, calls, InvalidReceipt)
                 ELSE Verified(l, calls,
                               GoogleResult(l.body.receiptData, outcome.data))]
            /\ UNCHANGED <<store, redis, now>>

\* Lines 42-63 with the result the verification returned.
PaymentVerified(r) ==
    LET l == reqs[r]
    IN  /\ l.pc = "pay_verified"
        /\ reqs' = PaymentAfterVerify(r, l.userId, l.body, l.result)
        /\ UNCHANGED <<store, redis, now>>

(***************************************************************************)
(* Payments whose receipts are verified with the vendors                   *)
(***************************************************************************)
MaxReceiptReqs == 2

ReceiptBodies ==
    LET Receipt(raw, json, productId, purchaseToken) ==
            [raw |-> raw, json |-> json, productId |-> productId,
             purchaseToken |-> purchaseToken]
        Body(platform, receiptData) ==
            [platform |-> platform, receiptData |-> receiptData,
             productId |-> "premium"]
    IN  {Body("ios", Receipt("apple-1", FALSE, "", "")),
         Body("android", Receipt("google-1", TRUE, "premium", "sub-2")),
         Body("android", Receipt("google-2", TRUE, "premium", "")),
         Body("android", Receipt("google-3", FALSE, "", "")),
         Body("web", Receipt("apple-1", FALSE, "", ""))}

\* process.env: whether the vendor's credentials are set.
ReceiptEnvs ==
    {[APPLE_SHARED_SECRET |-> TRUE, GOOGLE_SERVICE_ACCOUNT |-> TRUE],
     [APPLE_SHARED_SECRET |-> FALSE, GOOGLE_SERVICE_ACCOUNT |-> FALSE]}

\* What a call may come back with: no answer (the connection failed or the
\* timeout aborted it), an answer that is no JSON, or the parsed answer.
NoData == [status |-> 0, receipt |-> [present |-> FALSE, original_transaction_id |-> ""],
           latest_receipt_info |-> [present |-> FALSE, entries |-> <<>>],
           expiryTimeMillis |-> "", cancelled |-> FALSE, paymentState |-> 0]

VendorFailures ==
    {[kind |-> k, data |-> NoData] : k \in {"network", "timeout", "not_json"}}

AppleOutcomes ==
    LET Entry(ms) == [expires_date_ms |-> ms]
        Data(status, id, hasInfo, entries) ==
            [kind |-> "json",
             data |-> [NoData EXCEPT
                         !.status = status,
                         !.receipt = [present |-> id # "",
                                      original_transaction_id |-> id],
                         !.latest_receipt_info = [present |-> hasInfo,
                                                  entries |-> entries]]]
    IN  VendorFailures \cup
        {Data(21007, "", FALSE, <<>>),
         Data(21007, "sub-9", TRUE, <<Entry("640800000")>>),
         Data(21002, "", FALSE, <<>>),
         Data(0, "sub-1", TRUE, <<Entry("1245600000")>>),
         Data(0, "sub-1", TRUE, <<Entry("640800000"), Entry("1245600000")>>),
         Data(0, "sub-3", TRUE, <<Entry("1245600000"), Entry("640800000"), Entry("")>>),
         Data(0, "sub-3", TRUE, <<>>),
         Data(0, "sub-3", FALSE, <<>>)}

GoogleOutcomes ==
    LET Data(expiryTimeMillis, cancelled, paymentState) ==
            [kind |-> "json",
             data |-> [NoData EXCEPT !.expiryTimeMillis = expiryTimeMillis,
                                     !.cancelled = cancelled,
                                     !.paymentState = paymentState]]
    IN  VendorFailures \cup
        {Data("1245600000", FALSE, 1), Data("35000000", FALSE, 1),
         Data("", FALSE, 1), Data("1245600000", TRUE, 1),
         Data("1245600000", FALSE, 0), Data("soon", FALSE, 2)}

\* User 1 has paid (subscription sub-1), user 2 is in their trial.
InitReceipt ==
    /\ users = SeedUsers
    /\ devices = <<DeviceRow("dev-1", 1, Info1, StartTime),
                   DeviceRow("dev-2", 2, Info1, StartTime)>>
    /\ pushTokens = <<>>
    /\ commands = <<>>
    /\ telemetry = <<>>
    /\ subscriptions =
         <<SubscriptionRow(1, "premium", "active", "ios", "sub-1", "receipt-1",
                           0, StartTime, StartTime + TrialMs, StartTime),
           SubscriptionRow(2, "free", "trial", "android", "", "",
                           StartTime + TrialMs, StartTime, StartTime + TrialMs,
                           StartTime)>>
    /\ signatures = <<>>
    /\ scanLogs = <<>>
    /\ quarantine = <<>>
    /\ adminAuditLog = <<>>
    /\ cache = <<>>
    /\ redisUp = TRUE
    /\ zset = [k \in {} |-> {}]
    /\ zcounter = [k \in {} |-> 0]
    /\ now = StartTime
    /\ reqs = [r \in 1..MaxReceiptReqs |-> Idle]

NextReceipt ==
    \/ \E r \in Reqs : PaymentVerifyStart(r, ReceiptBodies, ReceiptEnvs)
    \/ \E r \in Reqs : AppleProductionCall(r, AppleOutcomes)
    \/ \E r \in Reqs : AppleSandboxCall(r, AppleOutcomes)
    \/ \E r \in Reqs : GoogleSubscriptionsGet(r, GoogleOutcomes)
    \/ \E r \in Reqs : PaymentVerified(r)
    \/ \E r \in Reqs : PaymentUpsert(r)

SpecReceipt == InitReceipt /\ [][NextReceipt]_vars

\* The last call a verification made.
LastCall(l) == l.calls[Len(l.calls)]

\* C11: when the production endpoint answers status 21007, and only then,
\* verifyAppleReceipt makes one further call, to the sandbox endpoint and
\* with the same receipt; that is its last call, and the result (valid,
\* subscriptionId, expiryDate) is made of the sandbox endpoint's answer alone.
C11_SandboxRetryOn21007 ==
    [][\A r \in Reqs :
         /\ (reqs[r].pc = "apple_production" /\ reqs'[r] # reqs[r])
            => LET answer == LastCall(reqs'[r]).outcome
               IN  /\ Len(reqs'[r].calls) = 1
                   /\ LastCall(reqs'[r]).endpoint = "production"
                   /\ (reqs'[r].pc = "apple_sandbox")
                         <=> (answer.kind = "json" /\ answer.data.status = 21007)
                   /\ reqs'[r].pc \in {"apple_sandbox", "pay_verified"}
         /\ (reqs[r].pc = "apple_sandbox" /\ reqs'[r] # reqs[r])
            => LET calls == reqs'[r].calls
                   answer == calls[2].outcome
                   info == answer.data.latest_receipt_info
                   result == reqs'[r].result
               IN  /\ reqs'[r].pc = "pay_verified"
                   /\ Len(calls) = 2
                   /\ calls[2].endpoint = "sandbox"
                   /\ calls[2].receiptData = calls[1].receiptData
                   /\ calls[2].receiptData = reqs[r].body.receiptData
                   /\ IF answer.kind = "json"
                         /\ ~(info.present /\ info.entries = <<>>)
                      THEN /\ result.valid <=> (answer.data.status = 0)
                           /\ result.subscriptionId =
                                IF answer.data.receipt.present
                                THEN answer.data.receipt.original_transaction_id
                                ELSE ""
                           /\ \/ result.expiryDate = 0
                              \/ \E i \in DOMAIN info.entries :
                                   result.expiryDate =
                                      parseInt(info.entries[i].expires_date_ms)
                      ELSE /\ ~result.valid
                           /\ result.subscriptionId = ""]_vars

\* Production answered 21007 with a receipt of its own, the sandbox endpoint
\* answered status 0 for sub-1: the result is the sandbox's.
C11_Witness ==
    \E r \in Reqs :
        /\ reqs[r].pc = "pay_verified"
        /\ Len(reqs[r].calls) = 2
        /\ reqs[r].calls[1].outcome.data.status = 21007
        /\ reqs[r].calls[1].outcome.data.receipt.original_transaction_id = "sub-9"
        /\ reqs[r].calls[2].endpoint = "sandbox"
        /\ reqs[r].calls[2].outcome.data.status = 0
        /\ Len(reqs[r].calls[2].outcome.data.latest_receipt_info.entries) = 2
        /\ reqs[r].result =
             [valid |-> TRUE, subscriptionId |-> "sub-1",
              expiryDate |-> 1245600000]

\* C12: on the production path and on the sandbox path alike, when the
\* vendor's answer carries several latest_receipt_info entries the expiryDate
\* returned is the greatest expires_date_ms of all of them.
C12_ExpiryIsMaximum ==
    [][\A r \in Reqs :
         (/\ reqs[r].pc \in {"apple_production", "apple_sandbox"}
          /\ reqs'[r].pc = "pay_verified"
          /\ LastCall(reqs'[r]).outcome.kind = "json"
          /\ Len(LastCall(reqs'[r]).outcome.data.latest_receipt_info.entries) >= 2)
         => LET entries ==
                  LastCall(reqs'[r]).outcome.data.latest_receipt_info.entries
                expiries == {parseInt(OrZero(entries[i].expires_date_ms)) :
                                i \in DOMAIN entries}
            IN  /\ reqs'[r].result.expiryDate \in expiries
                /\ \A e \in expiries : e <= reqs'[r].result.expiryDate]_vars

\* Whether a verification ended in a catch block: a credential was missing
\* or the receipt did not parse (no call was made), or the last call got no
\* answer or one that is no JSON.
FailedClosed(l) ==
    IF l.calls = <<>> THEN TRUE ELSE LastCall(l).outcome.kind # "json"

\* C13: a transport failure, a timeout, a missing credential or a vendor
\* answer or receipt that does not parse makes verifyAppleReceipt and
\* verifyGoogleReceipt return valid: false; the failed call is the last one
\* and no endpoint is called twice; payment/verify then answers 400
\* 'Invalid receipt' and creates or changes no Subscription row.
C13_FailClosedNoRetry ==
    /\ [](\A r \in Reqs :
            reqs[r].pc \in {"apple_production", "apple_sandbox", "google_get",
                            "pay_verified"}
            => /\ \A i, j \in DOMAIN reqs[r].calls :
                    reqs[r].calls[i].endpoint = reqs[r].calls[j].endpoint
                    => i = j
               /\ \A i \in DOMAIN reqs[r].calls :
                    reqs[r].calls[i].outcome.kind # "json"
                    => /\ i = Len(reqs[r].calls)
                       /\ reqs[r].pc = "pay_verified"
               /\ (reqs[r].pc = "pay_verified" /\ FailedClosed(reqs[r]))
                    => reqs[r].result =
                         [valid |-> FALSE, subscriptionId |-> "",
                          expiryDate |-> 0])
    /\ [][\A r \in Reqs :
            /\ (/\ reqs[r].pc = "idle"
                /\ reqs'[r].pc \notin {"idle", "done"}
                /\ LET body == reqs'[r].body
                       env == reqs'[r].env
                   IN  IF body.platform = "ios" THEN ~env.APPLE_SHARED_SECRET
                       ELSE \/ ~env.GOOGLE_SERVICE_ACCOUNT
                            \/ ~body.receiptData.json
                            \/ body.receiptData.productId = ""
                            \/ body.receiptData.purchaseToken = "")
               => /\ reqs'[r].pc = "pay_verified"
                  /\ reqs'[r].calls = <<>>
            /\ (/\ reqs[r].pc = "pay_verified"
                /\ FailedClosed(reqs[r])
                /\ reqs'[r] # reqs[r])
               => /\ reqs'[r].pc = "done"
                  /\ reqs'[r].resp = [status |-> 400, error |-> "Invalid receipt"]
                  /\ subscriptions' = subscriptions]_vars

\* One payment's call to the sandbox endpoint timed out after production had
\* answered 21007; another, refused for its receipt, left the rows alone.
C13_Witness ==
    \E r, q \in Reqs :
        /\ reqs[r].pc = "pay_verified"
        /\ Len(reqs[r].calls) = 2
        /\ reqs[r].calls[2].outcome.kind = "timeout"
        /\ ~reqs[r].result.valid
        /\ reqs[q].pc = "done"
        /\ reqs[q].resp = [status |-> 400, error |-> "Invalid receipt"]
        /\ Len(subscriptions) = 2
        /\ subscriptions[1].receiptData = "receipt-1"

(***************************************************************************)
(* app/api/scan/report/route.ts (src/unnamed/part_004), POST               *)
(***************************************************************************)
\* ScanReportSchema, lines 8-27; completedAt and threats are optional.  A
\* datetime field of the body is absent, a string that is no ISO datetime, or
\* an ISO datetime with the instant (ms) new Date() makes of it.
ScanReportSchemaOk(body) ==
    /\ body.scanType \in {"quick", "full", "custom"}
    /\ body.status \in {"completed", "failed", "cancelled"}
    /\ body.filesScanned >= 0
    /\ body.threatsFound >= 0
    /\ body.startedAt.present /\ body.startedAt.iso
    /\ (body.completedAt.present => body.completedAt.iso)
    /\ (body.hasThreats =>
          \A i \in DOMAIN body.threats :
              body.threats[i].severity \in {"low", "medium", "high", "critical"})

\* The catch block, lines 138-152.
ScanReportCatch(error) ==
    IF error = "ZodError"
    THEN [status |-> 400, error |-> "Invalid request data"]
    ELSE [status |-> 500, error |-> "Scan report failed"]

\* tx.scanLog.create, lines 76-92.
ScanLogRow(l) ==
    [deviceId |-> l.device, scanType |-> l.body.scanType,
     status |-> l.body.status, filesScanned |-> l.body.filesScanned,
     threatsFound |-> l.body.threatsFound, startedAt |-> l.startedAt,
     completedAt |-> IF l.body.status = "completed" THEN l.completedAt ELSE 0,
     duration |-> IF l.body.status = "completed"
                  THEN l.completedAt - l.startedAt ELSE 0,
     metadata |-> [given |-> l.body.hasThreats,
                   threats |-> IF l.body.hasThreats THEN l.body.threats
                               ELSE <<>>]]

\* crypto.randomUUID() of line 104: 122 random bits, the key of no
\* ThreatSignature row the store holds.
RandomUUIDs == {Len(signatures) + 1, Len(signatures) + 2}

\* The rows of tx.quarantine.createMany, lines 96-112.
QuarantineRows(l, uuids) ==
    [i \in DOMAIN l.body.threats |->
        [deviceId |-> l.device,
         fileName |-> l.body.threats[i].fileName,
         filePath |-> l.body.threats[i].filePath,
         fileSize |-> 0,
         fileHash |-> l.body.threats[i].fileHash,
         threatName |-> l.body.threats[i].threatName,
         threatSignatureId |-> uuids[i],
         severity |-> ToUpperCase(l.body.threats[i].severity),
         status |-> "QUARANTINED"]]

\* Quarantine_threatSignatureId_fkey and Quarantine_deviceId_fkey.
QuarantineForeignKeysOk(rows) ==
    \A i \in DOMAIN rows :
        /\ rows[i].threatSignatureId \in DOMAIN signatures
        /\ rows[i].deviceId \in DOMAIN devices

\* Lines 30-72: authentication, validation, the ownership lookup by the
\* device's id and the timestamps.
ScanReportStart(r, bodies) ==
    \E header \in NoAuth \cup {Bearer(u) : u \in DOMAIN users},
       body \in bodies :
        LET auth == verifyAuth(header)
            device == FindOwnedDevice(body.deviceId, auth.userId, FALSE)
            startedAt == body.startedAt.ms
            completedAt == IF body.completedAt.present
                           THEN body.completedAt.ms ELSE now
        IN  /\ MayStart(r)
            /\ reqs' =
                 IF ~auth.ok
                 THEN Respond(r, "scan_report", ScanReportCatch(auth.error))
                 ELSE IF ~ScanReportSchemaOk(body)
                 THEN Respond(r, "scan_report", ScanReportCatch("ZodError"))
                 ELSE IF device = {}
                 THEN Respond(r, "scan_report",
                              [status |-> 404, error |-> "Device not found"])
                 ELSE IF startedAt > completedAt
                 THEN Respond(r, "scan_report",
                        [status |-> 400,
                         error |-> "Invalid timestamps: startedAt must be before or equal to completedAt"])
                 ELSE [reqs EXCEPT ![r] =
                        [pc |-> "scan_tx", kind |-> "scan_report",
                         userId |-> auth.userId, device |-> body.deviceId,
                         body |-> body, startedAt |-> startedAt,
                         completedAt |-> completedAt]]
            /\ UNCHANGED <<store, redis, now>>

\* The three writes as statements of their own: the scan log stays when the
\* store refuses the quarantine rows.
M_ScanReportWithoutTransaction(r) ==
    LET l == reqs[r]
    IN  /\ l.pc = "scan_tx"
        /\ \E uuids \in [DOMAIN l.body.threats -> RandomUUIDs] :
             LET rows == QuarantineRows(l, uuids)
             IN  IF /\ l.body.hasThreats
                    /\ Len(l.body.threats) > 0
                    /\ ~QuarantineForeignKeysOk(rows)
                 THEN /\ scanLogs' = Append(scanLogs, ScanLogRow(l))
                      /\ reqs' = Respond(r, "scan_report",
                            ScanReportCatch("Foreign key constraint violated"))
                      /\ UNCHANGED <<quarantine, telemetry>>
                 ELSE /\ scanLogs' = Append(scanLogs, ScanLogRow(l))
                      /\ quarantine' =
                           IF l.body.hasThreats THEN quarantine \o rows
                           ELSE quarantine
                      /\ telemetry' = Append(telemetry,
                            TelemetryRow(l.userId, "scan_completed", 0))
                      /\ reqs' = Respond(r, "scan_report",
                            [status |-> 200, scanLogId |-> Len(scanLogs) + 1])
        /\ UNCHANGED <<users, devices, pushTokens, commands, subscriptions,
                       signatures, adminAuditLog, redis, now>>

\* Lines 75-137: the transaction (scan log, quarantine rows, telemetry row)
\* and the response.  A statement the store refuses rejects the transaction,
\* which is rolled back and answered by the catch block.
ScanReportTransaction(r) ==
    LET l == reqs[r]
    IN  /\ l.pc = "scan_tx"
        /\ \E uuids \in [DOMAIN l.body.threats -> RandomUUIDs] :
             LET rows == QuarantineRows(l, uuids)
             IN  IF /\ l.body.hasThreats
                    /\ Len(l.body.threats) > 0
                    /\ ~QuarantineForeignKeysOk(rows)
                 THEN /\ reqs' = Respond(r, "scan_report",
                            ScanReportCatch("Foreign key constraint violated"))
                      /\ UNCHANGED <<scanLogs, quarantine, telemetry>>
                 ELSE /\ scanLogs' = Append(scanLogs, ScanLogRow(l))
                      /\ quarantine' =
                           IF l.body.hasThreats THEN quarantine \o rows
                           ELSE quarantine
                      /\ telemetry' = Append(telemetry,
                            TelemetryRow(l.userId, "scan_completed", 0))
                      /\ reqs' = Respond(r, "scan_report",
                            [status |-> 200, scanLogId |-> Len(scanLogs) + 1])
        /\ UNCHANGED <<users, devices, pushTokens, commands, subscriptions,
                       signatures, adminAuditLog, redis, now>>

(***************************************************************************)
(* Scan reports of two users' devices                                      *)
(***************************************************************************)
MaxScanReqs == 2

ScanReportBodies ==
    LET Threat(hash) ==
            [fileName |-> "a.apk", filePath |-> "/sdcard/a.apk",
             fileHash |-> hash, threatName |-> "Trojan.A", severity |-> "high"]
        Body(deviceId, scanType, status, from, to, hasThreats, threats) ==
            [deviceId |-> deviceId, scanType |-> scanType, status |-> status,
             filesScanned |-> 10, threatsFound |-> Len(threats),
             startedAt |-> from, completedAt |-> to,
             hasThreats |-> hasThreats, threats |-> threats]
        NoDate == [present |-> FALSE, iso |-> FALSE, ms |-> 0]
        BadDate == [present |-> TRUE, iso |-> FALSE, ms |-> 0]
        IsoDate(ms) == [present |-> TRUE, iso |-> TRUE, ms |-> ms]
        T0 == IsoDate(StartTime - MsPerSec)
    IN  {Body(1, "quick", "completed", T0, IsoDate(StartTime), FALSE, <<>>),
         Body(1, "full", "completed", T0, NoDate, TRUE, <<>>),
         Body(1, "full", "completed", T0, NoDate, TRUE, <<Threat("h1")>>),
         Body(1, "full", "completed", T0, IsoDate(StartTime), TRUE,
              <<Threat("h1"), Threat("h2")>>),
         Body(1, "quick", "failed", T0, NoDate, FALSE, <<>>),
         Body(1, "quick", "completed", IsoDate(StartTime), T0, FALSE, <<>>),
         Body(1, "quick", "completed", BadDate, NoDate, FALSE, <<>>),
         Body(1, "deep", "completed", T0, NoDate, FALSE, <<>>),
         Body(3, "quick", "completed", T0, NoDate, FALSE, <<>>)}

\* Two users with one device each, and one signature (of hash h1) uploaded.
InitScan ==
    /\ users = SeedUsers
    /\ devices = <<DeviceRow("dev-1", 1, Info1, StartTime),
                   DeviceRow("dev-2", 2, Info1, StartTime)>>
    /\ pushTokens = <<>>
    /\ commands = <<>>
    /\ telemetry = <<>>
    /\ subscriptions = <<>>
    /\ signatures = <<[type |-> "HASH", signature |-> "h1",
                       threatName |-> "Trojan.A", version |-> 1,
                       isActive |-> TRUE]>>
    /\ scanLogs = <<>>
    /\ quarantine = <<>>
    /\ adminAuditLog = <<>>
    /\ cache = <<>>
    /\ redisUp = TRUE
    /\ zset = [k \in {} |-> {}]
    /\ zcounter = [k \in {} |-> 0]
    /\ now = StartTime
    /\ reqs = [r \in 1..MaxScanReqs |-> Idle]

NextScan ==
    \/ \E r \in Reqs : ScanReportStart(r, ScanReportBodies)
    \/ \E r \in Reqs : ScanReportTransaction(r)

SpecScan == InitScan /\ [][NextScan]_vars

\* C10: a scan/report request that passed authentication, validation and
\* the ownership check of its device, and whose threats array has k entries
\* (none when the array is absent), is answered 200, creates exactly k
\* Quarantine rows and exactly one TelemetryLog row, and each of these rows
\* references the reporting device.
C10_QuarantinePerThreatAndOneTelemetry ==
    [][\A r \in Reqs :
         (reqs[r].pc = "scan_tx" /\ reqs'[r].pc = "done")
         => /\ reqs'[r].resp.status = 200
            /\ Len(quarantine') = Len(quarantine) + Len(reqs[r].body.threats)
            /\ Len(telemetry') = Len(telemetry) + 1
            /\ \A q \in DOMAIN quarantine' \ DOMAIN quarantine :
                 quarantine'[q].deviceId = reqs[r].device
            /\ \A t \in DOMAIN telemetry' \ DOMAIN telemetry :
                 telemetry'[t].deviceId = reqs[r].device]_vars


(***************************************************************************)
(* app/api/url/classify/route.ts                                           *)
(***************************************************************************)
\* z.string().url() over the strings a body of the model carries.
ClassifyUrlSchemaOk(body) ==
    body.url \in {"https://example.com/", "http://malware.test/"}

\* Lines 24-33: the catch block answers only an error whose message
\* contains Unauthorized; for every other error the handler resolves
\* without a NextResponse, and the framework answers 500 with no JSON body.
UrlClassifyCatch(error) ==
    IF MessageIncludes(error, "Unauthorized")
    THEN [status |-> 401, error |-> "Unauthorized"]
    ELSE [status |-> 500, envelope |-> FALSE]

\* A catch block that answers every error with the fail-open classification.
M_UrlClassifyCatch(error) == [status |-> 200, data |-> [isSafe |-> TRUE]]

\* A finished classify request keeps, next to its response, whether its
\* token was accepted, whether its body passed ClassifyUrlSchema, whether
\* GOOGLE_SAFE_BROWSING_KEY was set and what the vendor call did ("none"
\* when it was not made).
UrlClassifyDone(r, resp, authenticated, valid, apiKey, outcome) ==
    [reqs EXCEPT ![r] = [pc |-> "done", kind |-> "url_classify", resp |-> resp,
                         authenticated |-> authenticated, valid |-> valid,
                         apiKey |-> apiKey, outcome |-> outcome]]

\* Lines 11-18 and 37-42: authentication, validation and the API key check
\* of classifyUrlWithThreatIntel, which throws outside its own try block.
UrlClassifyStart(r, bodies, envs) ==
    \E header \in NoAuth \cup {Bearer(u) : u \in DOMAIN users},
       body \in bodies, env \in envs :
        LET auth == verifyAuth(header)
            valid == ClassifyUrlSchemaOk(body)
            key == env.GOOGLE_SAFE_BROWSING_KEY
        IN  /\ MayStart(r)
            /\ IF ~auth.ok
               THEN reqs' = UrlClassifyDone(r, UrlClassifyCatch(auth.error),
                                            FALSE, valid, key, "none")
               ELSE IF ~valid
               THEN reqs' = UrlClassifyDone(r, UrlClassifyCatch("ZodError"),
                                            TRUE, valid, key, "none")
               ELSE IF ~key
               THEN reqs' = UrlClassifyDone(r,
                        UrlClassifyCatch("GOOGLE_SAFE_BROWSING_KEY is not configured"),
                        TRUE, valid, key, "none")
               ELSE reqs' = [reqs EXCEPT ![r] =
                        [pc |-> "url_fetch", kind |-> "url_classify",
                         url |-> body.url]]
            /\ UNCHANGED <<store, redis, now>>

\* Lines 44-90: the vendor call inside the try block.  It is aborted after
\* 5 seconds, fails in transport, answers a body that is not JSON, answers
\* a status that is not OK, or answers matches (possibly none).  Every
\* failure is caught and classified as safe.
UrlClassifyFetch(r, outcomes) ==
    /\ reqs[r].pc = "url_fetch"
    /\ \E o \in outcomes :
        LET classification ==
                IF o.kind = "ok" /\ o.matches # <<>>
                THEN [isSafe |-> FALSE, category |-> o.matches[1]]
                ELSE [isSafe |-> TRUE]
        IN  reqs' = UrlClassifyDone(r, [status |-> 200, data |-> classification],
                                    TRUE, TRUE, TRUE, o.kind)
    /\ UNCHANGED <<store, redis, now>>

(***************************************************************************)
(* app/api/telemetry/batch/route.ts                                        *)
(***************************************************************************)
TelemetryLimit == 100
TelemetryWindow == 3600

\* The whole handler: its one write follows its one lookup, and no handler
\* deletes or reassigns a Device row in between.
TelemetryBatchPOST(r, bodies) ==
    \E header \in NoAuth \cup {Bearer(u) : u \in DOMAIN users},
       body \in bodies :
        LET auth == verifyAuth(header)
            rl == rateLimit(RateKey("telemetry", auth.userId),
                            TelemetryLimit, TelemetryWindow)
            rows == [i \in DOMAIN body.events |->
                        TelemetryRow(auth.userId, body.events[i].eventType,
                                     body.deviceId)]
        IN  /\ MayStart(r)
            /\ IF ~auth.ok
               THEN /\ reqs' = Respond(r, "telemetry_batch",
                          [status |-> 500, error |-> "Telemetry processing failed"])
                    /\ UNCHANGED <<telemetry, zset, zcounter>>
               ELSE /\ zset' = rl.zset
                    /\ zcounter' = rl.zcounter
                    /\ IF ~rl.success
                       THEN /\ reqs' = Respond(r, "telemetry_batch",
                                  [status |-> 429, error |-> "Too many requests"])
                            /\ UNCHANGED telemetry
                       ELSE IF \E i \in DOMAIN body.events : body.events[i].eventType = ""
                       THEN /\ reqs' = Respond(r, "telemetry_batch",
                                  [status |-> 400, error |-> "Invalid request data"])
                            /\ UNCHANGED telemetry
                       ELSE IF FindOwnedDevice(body.deviceId, auth.userId, FALSE) = {}
                       THEN /\ reqs' = Respond(r, "telemetry_batch",
                                  [status |-> 404, error |-> "Device not found"])
                            /\ UNCHANGED telemetry
                       ELSE /\ telemetry' = telemetry \o rows
                            /\ reqs' = Respond(r, "telemetry_batch",
                                  [status |-> 200, eventsProcessed |-> Len(rows)])
            /\ UNCHANGED <<users, devices, pushTokens, commands, subscriptions,
                           signatures, scanLogs, quarantine, adminAuditLog,
                           cache, redisUp, now>>

(***************************************************************************)
(* app/api/quarantine/signed-upload/route.ts                               *)
(***************************************************************************)
\* The whole handler.  The environment check comes before verifyAuth;
\* getSignedUrl resolves or throws.
SignedUploadPOST(r, bodies, envs) ==
    \E header \in NoAuth \cup {Bearer(u) : u \in DOMAIN users},
       body \in bodies, env \in envs, signed \in BOOLEAN :
        LET auth == verifyAuth(header)
            found == {q \in DOMAIN quarantine :
                        /\ q = body.quarantineId
                        /\ devices[quarantine[q].deviceId].userId = auth.userId}
            q == CHOOSE q \in found : TRUE
            storageKey == <<"quarantine", auth.userId, quarantine[q].deviceId,
                            now, quarantine[q].fileHash>>
        IN  /\ MayStart(r)
            /\ IF ~env.AWS
               THEN /\ reqs' = Respond(r, "signed_upload",
                          [status |-> 500, error |-> "Server configuration error"])
                    /\ UNCHANGED quarantine
               ELSE IF ~auth.ok
               THEN /\ reqs' = Respond(r, "signed_upload",
                          [status |-> 500, error |-> "Failed to generate upload URL"])
                    /\ UNCHANGED quarantine
               ELSE IF body.fileSize <= 0
               THEN /\ reqs' = Respond(r, "signed_upload",
                          [status |-> 400, error |-> "Invalid request data"])
                    /\ UNCHANGED quarantine
               ELSE IF found = {}
               THEN /\ reqs' = Respond(r, "signed_upload",
                          [status |-> 404, error |-> "Quarantine record not found"])
                    /\ UNCHANGED quarantine
               ELSE IF ~signed
               THEN /\ reqs' = Respond(r, "signed_upload",
                          [status |-> 500, error |-> "Failed to generate upload URL"])
                    /\ UNCHANGED quarantine
               ELSE /\ quarantine' = [quarantine EXCEPT ![q] =
                          ("storageKey" :> storageKey) @@
                          ("uploadStatus" :> "pending") @@
                          [quarantine[q] EXCEPT !.fileSize = body.fileSize]]
                    /\ reqs' = Respond(r, "signed_upload",
                          [status |-> 200, storageKey |-> storageKey,
                           expiresIn |-> 900])
            /\ UNCHANGED <<users, devices, pushTokens, commands, telemetry,
                           subscriptions, signatures, scanLogs, adminAuditLog,
                           redis, now>>


(***************************************************************************)
(* SpecAuth: the bearer routes before any account exists.  The User table  *)
(* is empty, so no Authorization header carries a JWT that verifies to a   *)
(* user: every request has a missing or malformed header or an invalid or  *)
(* expired token.                                                          *)
(***************************************************************************)
MaxAuthReqs == 2

ClassifyUrlBodies ==
    {[url |-> "https://example.com/"], [url |-> "http://malware.test/"],
     [url |-> "not a url"]}

\* process.env of the url/classify and quarantine/signed-upload handlers.
RouteEnvs == [GOOGLE_SAFE_BROWSING_KEY : BOOLEAN, AWS : BOOLEAN]

TelemetryBodies ==
    {[deviceId |-> 1, events |-> <<[eventType |-> "app_open"]>>],
     [deviceId |-> 1, events |-> <<[eventType |-> "app_open"],
                                   [eventType |-> "scan_started"]>>],
     [deviceId |-> 2, events |-> <<[eventType |-> ""]>>]}

SignedUploadBodies == [quarantineId : 1..2, fileSize : {0, 4096}]

InitAuth ==
    /\ users = <<>>
    /\ devices = <<>>
    /\ pushTokens = <<>>
    /\ commands = <<>>
    /\ telemetry = <<>>
    /\ subscriptions = <<>>
    /\ signatures = <<>>
    /\ scanLogs = <<>>
    /\ quarantine = <<>>
    /\ adminAuditLog = <<>>
    /\ cache = <<>>
    /\ redisUp = TRUE
    /\ zset = [k \in {} |-> {}]
    /\ zcounter = [k \in {} |-> 0]
    /\ now = StartTime
    /\ reqs = [r \in 1..MaxAuthReqs |-> Idle]

NextAuth ==
    \/ \E r \in Reqs : CommandStart(r)
    \/ \E r \in Reqs : LegacyCommandPOST(r)
    \/ \E r \in Reqs : LocationStart(r)
    \/ \E r \in Reqs : RegisterStart(r, BindRegisterBodies)
    \/ \E r \in Reqs : HashCheckStart(r, HashCheckBodies)
    \/ \E r \in Reqs : ScanReportStart(r, ScanReportBodies)
    \/ \E r \in Reqs : PaymentStart(r, PaymentBodies)
    \/ \E r \in Reqs : SignedUploadPOST(r, SignedUploadBodies, RouteEnvs)
    \/ \E r \in Reqs : ThreatUploadPOST(r, UploadBodies)
    \/ \E r \in Reqs : UrlClassifyStart(r, ClassifyUrlBodies, RouteEnvs)
    \/ \E r \in Reqs : TelemetryBatchPOST(r, TelemetryBodies)
    \/ \E r \in Reqs : SubscriptionGetStart(r)

SpecAuth == InitAuth /\ [][NextAuth]_vars

\* C15: a request to a bearer route whose Authorization header is missing or
\* malformed, or whose JWT is invalid or expired, is answered 401 with the
\* envelope {success: false, error} and writes nothing to the store.
C15_UnauthenticatedAnswered401 ==
    [][\A r \in Reqs :
         (reqs[r].pc = "idle" /\ reqs'[r].pc # "idle")
         => /\ reqs'[r].pc = "done"
            /\ reqs'[r].resp.status = 401
            /\ "error" \in DOMAIN reqs'[r].resp
            /\ store' = store]_vars

\* The part of C15 the handlers keep: no such request writes to the store.
UnauthenticatedWritesNothing == [][store' = store]_vars


(***************************************************************************)
(* SpecAdmin: signature uploads by callers of every stored role.  User 1   *)
(* (role USER) is in ADMIN_EMAILS, user 2 (USER) and user 5 (SUPPORT) are  *)
(* not admins, user 3 has the stored role ADMIN and user 4 is the seed's   *)
(* SUPERADMIN; none of users 2 to 5 is in ADMIN_EMAILS.                    *)
(***************************************************************************)
MaxAdminReqs == 3

\* CREATE TYPE "UserRole" AS ENUM ('USER', 'ADMIN', 'SUPPORT', 'SUPERADMIN')
AdminRoles == {"ADMIN", "SUPERADMIN"}

InitAdmin ==
    /\ users = SeedUsers \o
         <<[UserRow("c@example.com", "google", "google-c", "")
               EXCEPT !.role = "ADMIN"],
           [UserRow("admin@example.com", "google", "google-admin-id", "")
               EXCEPT !.role = "SUPERADMIN"],
           [UserRow("s@example.com", "google", "google-s", "")
               EXCEPT !.role = "SUPPORT"]>>
    /\ devices = <<>>
    /\ pushTokens = <<>>
    /\ InitStoreEmpty
    /\ cache = <<>>
    /\ redisUp = TRUE
    /\ zset = [k \in {} |-> {}]
    /\ zcounter = [k \in {} |-> 0]
    /\ now = StartTime
    /\ reqs = [r \in 1..MaxAdminReqs |-> Idle]

NextAdmin == \E r \in Reqs : ThreatUploadPOST(r, UploadBodies)

SpecAdmin == InitAdmin /\ [][NextAdmin]_vars

\* C16: an authenticated upload by a caller whose stored role is no admin
\* role and whose email is not in the admin list is answered 403 and
\* creates or changes no ThreatSignature and no AdminAuditLog row; a caller
\* whose stored role is an admin role is admitted (not answered 403).
C16_OnlyAdminsUpload ==
    [][\A r \in Reqs :
         (/\ reqs[r].pc = "idle"
          /\ reqs'[r].pc = "done"
          /\ reqs'[r].kind = "upload"
          /\ reqs'[r].userId # 0)
         => LET caller == users[reqs'[r].userId]
            IN  /\ (caller.role \notin AdminRoles /\ caller.email \notin AdminEmails)
                   => /\ reqs'[r].resp.status = 403
                      /\ signatures' = signatures
                      /\ adminAuditLog' = adminAuditLog
                /\ caller.role \in AdminRoles
                   => reqs'[r].resp.status # 403]_vars

\* The part of C16 the handler keeps: the rejection of callers who are no
\* admins, and that only callers of the admin list write.
NonAdminRejected ==
    [][\A r \in Reqs :
         (/\ reqs[r].pc = "idle"
          /\ reqs'[r].pc = "done"
          /\ reqs'[r].kind = "upload"
          /\ reqs'[r].userId # 0)
         => LET caller == users[reqs'[r].userId]
            IN  (caller.role \notin AdminRoles /\ caller.email \notin AdminEmails)
                => /\ reqs'[r].resp = [status |-> 403, error |-> "Unauthorized"]
                   /\ signatures' = signatures
                   /\ adminAuditLog' = adminAuditLog]_vars


(***************************************************************************)
(* SpecAttempts: one client (one forwarded address) sends login and        *)
(* registration requests within one window of the login limiter.           *)
(***************************************************************************)
MaxAttemptReqs == 6

InitAttempts ==
    /\ users = SeedUsers
    /\ devices = <<DeviceRow("dev-1", 1, Info1, StartTime),
                   DeviceRow("dev-2", 2, Info1, StartTime)>>
    /\ pushTokens = <<>>
    /\ InitStoreEmpty
    /\ cache = <<>>
    /\ redisUp = TRUE
    /\ zset = [k \in {RateKey("email_login", 1)} |-> {}]
    /\ zcounter = [k \in DOMAIN zset |-> 0]
    /\ now = StartTime
    /\ reqs = [r \in 1..MaxAttemptReqs |-> Idle]

NextAttempts ==
    \/ \E r \in Reqs : LoginStart(r, {1},
            {[email |-> "b@example.com", password |-> "secret-b",
              deviceId |-> "dev-2", info |-> Info1],
             [email |-> "b@example.com", password |-> "guess",
              deviceId |-> "dev-2", info |-> Info1]})
    \/ \E r \in Reqs : LoginFindSubscription(r)
    \/ \E r \in Reqs : LoginCreateTrial(r)
    \/ \E r \in Reqs : EmailRegisterStart(r,
            {[email |-> "c@example.com", password |-> "secret-c",
              deviceId |-> "dev-9", info |-> Info2]})
    \/ \E r \in Reqs : EmailRegisterTransaction(r)

SpecAttempts == InitAttempts /\ [][NextAttempts]_vars

\* The requests of a route that arrived before and were not answered 429.
AdmittedAttempts(kind) ==
    {q \in Reqs : /\ reqs[q].pc # "idle"
                  /\ reqs[q].kind = kind
                  /\ ~(reqs[q].pc = "done" /\ reqs[q].resp.status = 429)}

\* A request of the route arrives after limit admitted ones: it is answered
\* 429 in its first step, before any row is read for it or written.
RejectedBeyond(kind, limit) ==
    \A r \in Reqs :
        (/\ reqs[r].pc = "idle"
         /\ reqs'[r].pc # "idle"
         /\ reqs'[r].kind = kind
         /\ Cardinality(AdmittedAttempts(kind)) >= limit)
        => /\ reqs'[r].pc = "done"
           /\ reqs'[r].resp.status = 429
           /\ store' = store

\* C17: on email-login and on email-register, a request of a client that
\* has already had N requests admitted within the window is answered 429
\* before any user lookup or creation (N is the limit of the one limiter of
\* the two routes, 5 per 15 minutes).
C17_LoginAndRegisterLimited ==
    [][/\ RejectedBeyond("login", LoginLimit)
       /\ RejectedBeyond("email_register", LoginLimit)]_vars

\* The part of C17 the code keeps: email-login.
LoginLimited == [][RejectedBeyond("login", LoginLimit)]_vars


(***************************************************************************)
(* SpecUrl: URL classification by the two seeded users.                    *)
(***************************************************************************)
MaxUrlReqs == 2

\* What the Safe Browsing call does: the fetch is aborted by the timer or
\* fails in transport, the body is not JSON, the status is not OK, or the
\* answer is read (with or without matches).
UrlFailures == {"aborted", "transport", "not_json", "not_ok"}

UrlOutcomes ==
    {[kind |-> k, matches |-> <<>>] : k \in UrlFailures}
    \cup {[kind |-> "not_ok", matches |-> <<"MALWARE">>],
          [kind |-> "ok", matches |-> <<>>],
          [kind |-> "ok", matches |-> <<"MALWARE", "SOCIAL_ENGINEERING">>]}

InitUrl ==
    /\ users = SeedUsers
    /\ devices = <<>>
    /\ pushTokens = <<>>
    /\ InitStoreEmpty
    /\ cache = <<>>
    /\ redisUp = TRUE
    /\ zset = [k \in {} |-> {}]
    /\ zcounter = [k \in {} |-> 0]
    /\ now = StartTime
    /\ reqs = [r \in 1..MaxUrlReqs |-> Idle]

NextUrl ==
    \/ \E r \in Reqs : UrlClassifyStart(r, ClassifyUrlBodies, RouteEnvs)
    \/ \E r \in Reqs : UrlClassifyFetch(r, UrlOutcomes)

SpecUrl == InitUrl /\ [][NextUrl]_vars

\* C18: every url/classify request ends with a JSON response envelope, and
\* an authenticated request with a valid URL for which the reputation
\* integration fails (API key missing, timeout, transport error, status not
\* OK, body not JSON) is answered success: true with isSafe: true.
C18_IntegrationFailsOpen ==
    [][\A r \in Reqs :
         (/\ reqs[r].pc # "done"
          /\ reqs'[r].pc = "done"
          /\ reqs'[r].kind = "url_classify")
         => /\ "envelope" \notin DOMAIN reqs'[r].resp
            /\ (/\ reqs'[r].authenticated
                /\ reqs'[r].valid
                /\ (~reqs'[r].apiKey \/ reqs'[r].outcome \in UrlFailures))
               => reqs'[r].resp = [status |-> 200, data |-> [isSafe |-> TRUE]]]_vars

\* The part of C18 the code keeps: a failure of the vendor call itself is
\* answered success: true, isSafe: true.
VendorCallFailsOpen ==
    [][\A r \in Reqs :
         (reqs[r].pc = "url_fetch" /\ reqs'[r].pc = "done")
         => /\ reqs'[r].resp.status = 200
            /\ reqs'[r].outcome \in UrlFailures
               => reqs'[r].resp.data = [isSafe |-> TRUE]]_vars


(***************************************************************************)
(* app/api/device/command/route.ts, lines 16-33: Firebase Admin            *)
(***************************************************************************)
\* The module initialises Firebase Admin when it is loaded and throws when
\* one of the three variables is unset.
FirebaseAdminInit(env) ==
    /\ env.FIREBASE_PROJECT_ID
    /\ env.FIREBASE_CLIENT_EMAIL
    /\ env.FIREBASE_PRIVATE_KEY

\* A request to the route.  A module that threw while loading exports no
\* handler: POST is not run and the framework answers 500 with no JSON body.
\* The finished request keeps the caller its header names.
CommandRoute(r, envs) ==
    \E env \in envs :
        IF FirebaseAdminInit(env)
        THEN CommandStart(r)
        ELSE \E header \in NoAuth \cup {Bearer(u) : u \in DOMAIN users},
                body \in CommandBodies :
                 /\ MayStart(r)
                 /\ reqs' = CommandDone(r, header.userId, body.deviceId,
                                        DeviceCommandSchemaOk(body),
                                        [status |-> 500, envelope |-> FALSE])
                 /\ UNCHANGED <<store, redis, now>>

(***************************************************************************)
(* SpecPush: the store of SpecCommand in a deployment where a Firebase     *)
(* variable is unset (and the second handler's PUSH_SERVICE_URL as well).  *)
(***************************************************************************)
FirebaseEnvs ==
    [FIREBASE_PROJECT_ID : BOOLEAN, FIREBASE_CLIENT_EMAIL : BOOLEAN,
     FIREBASE_PRIVATE_KEY : BOOLEAN]

NextPush ==
    \/ \E r \in Reqs : CommandRoute(r, {env \in FirebaseEnvs : ~FirebaseAdminInit(env)})
    \/ \E r \in Reqs : LegacyCommandPOST(r)

SpecPush == InitCommand /\ [][NextPush]_vars

\* C19: with the push provider's credentials missing, a device/command
\* request of the owner of an active device with an active push token (valid
\* body, not rate-limited) still creates the AntiTheftCommand row of that
\* device, keeps it, and is answered with a response envelope.
C19_CommandPersistsWithoutPush ==
    [][/\ \A r \in Reqs :
            LET id == reqs'[r].deviceId
            IN  (/\ reqs[r].pc = "idle"
                 /\ reqs'[r].pc # "idle"
                 /\ reqs'[r].kind = "command"
                 /\ reqs'[r].userId # 0
                 /\ reqs'[r].valid
                 /\ id \in DOMAIN devices
                 /\ devices[id].userId = reqs'[r].userId
                 /\ devices[id].isActive
                 /\ \E t \in DOMAIN pushTokens :
                        pushTokens[t].deviceId = id /\ pushTokens[t].isActive
                 /\ ~(reqs'[r].pc = "done" /\ reqs'[r].resp.status = 429))
                => /\ Len(commands') = Len(commands) + 1
                   /\ commands'[Len(commands')].deviceId = id
                   /\ reqs'[r].pc = "done"
                      => "envelope" \notin DOMAIN reqs'[r].resp
       /\ \A c \in DOMAIN commands :
            c \in DOMAIN commands' /\ commands'[c].deviceId = commands[c].deviceId]_vars


(***************************************************************************)
(* SpecFanout: the fan-out of SpecCommand's store, with a store that may   *)
(* reject the writes after the fan-out.                                    *)
(***************************************************************************)
NextFanout ==
    \/ \E r \in Reqs : CommandStart(r)
    \/ \E r \in Reqs : CommandPush(r)
    \/ \E r \in Reqs : CommandFinish(r)
    \/ \E r \in Reqs : CommandFinishFails(r)

SpecFanout == InitCommand /\ [][NextFanout]_vars

\* The sends that settled in this step: request, token.
SettledNow ==
    {s \in Reqs \X DOMAIN pushTokens :
        /\ reqs[s[1]].pc = "cmd_fanout"
        /\ s[2] \in reqs[s[1]].pushTokens \ DOMAIN reqs[s[1]].pushResults
        /\ reqs'[s[1]].pc = "cmd_fanout"
        /\ s[2] \in DOMAIN reqs'[s[1]].pushResults}

NextIsolation ==
    \/ \E r \in Reqs : CommandStart(r)
    \/ \E r \in Reqs : CommandPush(r)
    \/ \E r \in Reqs : CommandPushWriteFails(r)
    \/ \E r \in Reqs : CommandFinish(r)

SpecIsolation == InitCommand /\ [][NextIsolation]_vars

\* C21: when a command request leaves its fan-out, a delivery was attempted
\* for every token that was active when the device was read, whatever the
\* other deliveries (or the deactivating writes) did and in whatever order
\* they settled; the response counts exactly the deliveries that succeeded,
\* and the row is SENT when there is at least one.
C21_DeliveriesIsolated ==
    [][\A r \in Reqs :
         (reqs[r].pc = "cmd_fanout" /\ reqs'[r].pc = "done")
         => LET sent == {t \in DOMAIN reqs[r].reasons :
                            reqs[r].reasons[t] = "sent"}
            IN  /\ DOMAIN reqs[r].reasons = reqs[r].pushTokens
                /\ reqs[r].pushTokens # {}
                /\ reqs'[r].resp.status = 200
                /\ reqs'[r].resp.pushesSent = Cardinality(sent)
                /\ commands'[reqs[r].commandId].status =
                     IF sent # {} THEN "SENT" ELSE "FAILED"]_vars

\* Of the two tokens of device 1 one delivery succeeded and the other one
\* failed without deactivating its token (an error of the provider, or a
\* deactivating write the store rejected): the command is SENT with one push.
C21_Witness ==
    \E r \in Reqs :
        /\ reqs[r].pc = "done" /\ reqs[r].kind = "command"
        /\ reqs[r].deviceId = 1
        /\ reqs[r].resp.status = 200
        /\ reqs[r].resp.pushesSent = 1
        /\ commands[reqs[r].resp.commandId].status = "SENT"
        /\ pushTokens[1].isActive /\ pushTokens[2].isActive
        /\ \A q \in Reqs \ {r} : reqs[q].pc = "idle"


(***************************************************************************)
(* Claims about location reports (SpecCommand)                             *)
(***************************************************************************)
\* C22: the update of a successful location report sets the metadata's
\* location key to the reported coordinates and keeps every other key of
\* the row's metadata with its value; the row's deviceId, commandType and
\* issuedBy, and every other command row, are unchanged.
C22_LocationMergedIntoMetadata ==
    [][\A r \in Reqs :
         (reqs[r].pc = "loc_update" /\ reqs'[r].pc = "done")
         => LET c == reqs[r].commandId
                before == commands[c]
                after == commands'[c]
            IN  /\ reqs'[r].resp.status = 200
                /\ DOMAIN after.metadata = DOMAIN before.metadata \cup {"location"}
                /\ after.metadata["location"] = reqs[r].fix
                /\ \A k \in DOMAIN before.metadata \ {"location"} :
                     after.metadata[k] = before.metadata[k]
                /\ after.deviceId = before.deviceId
                /\ after.commandType = before.commandType
                /\ after.issuedBy = before.issuedBy
                /\ \A o \in DOMAIN commands \ {c} : commands'[o] = commands[o]]_vars

\* A locate command issued with a lockMessage has received a location: the
\* row carries both keys.
C22_Witness ==
    \E c \in DOMAIN commands, r \in Reqs :
        /\ reqs[r].pc = "done" /\ reqs[r].kind = "location"
        /\ reqs[r].resp.status = 200 /\ reqs[r].resp.commandId = c
        /\ DOMAIN commands[c].metadata = {"lockMessage", "location"}
        /\ commands[c].metadata["lockMessage"] = "call me"
        /\ commands[c].metadata["location"].latitude = 48


(***************************************************************************)
(* Claims about registration by email (SpecBind)                           *)
(***************************************************************************)
\* C23: a step of an email-register request either creates one User row,
\* one Device row of that user and one trial Subscription row of that user
\* (the request is then answered 201), or creates and changes no User,
\* Device or Subscription row at all: so it is when the deviceId is taken,
\* when a concurrent registration took the email, and when the email was
\* registered before.
C23_RegistrationAllOrNothing ==
    [][\A r \in Reqs :
         (/\ reqs'[r] # reqs[r]
          /\ reqs'[r].kind = "email_register")
         => IF reqs'[r].pc = "done" /\ reqs'[r].resp.status = 201
            THEN LET u == Len(users) + 1
                     d == Len(devices) + 1
                     s == Len(subscriptions) + 1
                 IN  /\ users' = Append(users, users'[u])
                     /\ users'[u].email = reqs[r].body.email
                     /\ devices' = Append(devices, devices'[d])
                     /\ devices'[d].userId = u
                     /\ devices'[d].deviceId = reqs[r].body.deviceId
                     /\ subscriptions' = Append(subscriptions, subscriptions'[s])
                     /\ subscriptions'[s].userId = u
                     /\ subscriptions'[s].status = "trial"
            ELSE /\ users' = users
                 /\ devices' = devices
                 /\ subscriptions' = subscriptions]_vars

\* Two registrations of c@example.com have ended, one with 201 and one with
\* 500: there is one new user with one device and one trial subscription.
C23_Witness ==
    \E r, q \in Reqs :
        /\ reqs[r].pc = "done" /\ reqs[r].kind = "email_register"
        /\ reqs[r].resp.status = 201
        /\ reqs[q].pc = "done" /\ reqs[q].kind = "email_register"
        /\ reqs[q].resp = [status |-> 500, error |-> "Registration failed"]
        /\ Cardinality(UserByEmail("c@example.com")) = 1
        /\ Len(users) = Len(SeedUsers) + 1
        /\ Cardinality({d \in DOMAIN devices : devices[d].userId = Len(users)}) = 1
        /\ Cardinality({s \in DOMAIN subscriptions :
                            subscriptions[s].userId = Len(users)}) = 1


(***************************************************************************)
(* Claims about the order of row and pushes (SpecCommand)                  *)
(***************************************************************************)
\* C24: a step that creates a command row creates one row, with status
\* PENDING; and a push of a request settles only when the row whose id the
\* request's push payloads carry is stored, for the device the request
\* named.
C24_PendingRowBeforePush ==
    [][/\ commands' # commands /\ Len(commands') # Len(commands)
          => /\ Len(commands') = Len(commands) + 1
             /\ commands'[Len(commands')].status = "PENDING"
             /\ \A c \in DOMAIN commands : commands'[c] = commands[c]
       /\ \A r \in Reqs :
            (/\ reqs[r].pc = "cmd_fanout"
             /\ reqs'[r].pc = "cmd_fanout"
             /\ DOMAIN reqs'[r].pushResults # DOMAIN reqs[r].pushResults)
            => /\ reqs[r].commandId \in DOMAIN commands
               /\ commands[reqs[r].commandId].deviceId = reqs[r].deviceId
               /\ commands[reqs[r].commandId].issuedBy = reqs[r].userId]_vars

\* A push of a request has settled while the request's row is stored and
\* still PENDING.
C24_Witness ==
    \E r \in Reqs :
        /\ reqs[r].pc = "cmd_fanout"
        /\ DOMAIN reqs[r].pushResults # {}
        /\ reqs[r].commandId \in DOMAIN commands
        /\ commands[reqs[r].commandId].status = "PENDING"


(***************************************************************************)
(* lib/rate-limit.ts under concurrency.  rateLimit reads Date.now() in the *)
(* server process and sends it to redis as ARGV[1]; the script runs when   *)
(* the eval reaches redis.  Calls in flight can reach redis in another     *)
(* order than the one of their timestamps.                                 *)
(***************************************************************************)
\* redis.eval(rateLimitScript, [key], [at, window, limit]); EXPIRE runs on
\* redis's clock.
rateLimitAt(identifier, limit, window, at) ==
    LET out == rateLimitScript(LiveZset(identifier, window),
                               zcounter[identifier], at, window, limit)
    IN  [success |-> out.ret[1] = 1, remaining |-> out.ret[2],
         zset |-> [zset EXCEPT ![identifier] = out.z],
         zcounter |-> [zcounter EXCEPT ![identifier] = out.c]]

\* Line 250: const now = Date.now().
RateLimitCall(r, identifiers) ==
    \E identifier \in identifiers :
        /\ MayStart(r)
        /\ reqs' = [reqs EXCEPT ![r] =
              [pc |-> "rl_eval", kind |-> "rate_call",
               identifier |-> identifier, at |-> now]]
        /\ UNCHANGED <<store, redis, now>>

\* Lines 252-260: the script runs in redis and the call returns.
RateLimitEval(r, limit, window) ==
    LET rl == rateLimitAt(reqs[r].identifier, limit, window, reqs[r].at)
    IN  /\ reqs[r].pc = "rl_eval"
        /\ zset' = rl.zset
        /\ zcounter' = rl.zcounter
        /\ reqs' = [reqs EXCEPT ![r] =
              [pc |-> "done", kind |-> "rate_call",
               identifier |-> reqs[r].identifier, at |-> reqs[r].at,
               resp |-> [success |-> rl.success, remaining |-> rl.remaining]]]
        /\ UNCHANGED <<store, cache, redisUp, now>>

(***************************************************************************)
(* SpecRace: concurrent calls for one identifier, with time passing        *)
(***************************************************************************)
MaxRaceReqs == 4
MaxRaceTicks == 3

InitRace ==
    /\ users = SeedUsers
    /\ devices = <<>>
    /\ pushTokens = <<>>
    /\ InitStoreEmpty
    /\ cache = <<>>
    /\ redisUp = TRUE
    /\ zset = [k \in {RateKey("device_command", 1)} |-> {}]
    /\ zcounter = [k \in DOMAIN zset |-> 0]
    /\ now = StartTime
    /\ reqs = [r \in 1..MaxRaceReqs |-> Idle]

NextRace ==
    \/ \E r \in Reqs : RateLimitCall(r, {RateKey("device_command", 1)})
    \/ \E r \in Reqs : RateLimitEval(r, RateLimit, RateWindow)
    \/ Tick(RateStepMs, StartTime + MaxRaceTicks * RateStepMs)

SpecRace == InitRace /\ [][NextRace]_vars

\* The calls of an identifier that were accepted.
AcceptedCalls(identifier) ==
    {q \in Reqs : /\ reqs[q].pc = "done"
                  /\ reqs[q].kind = "rate_call"
                  /\ reqs[q].identifier = identifier
                  /\ reqs[q].resp.success}

\* C25: among the accepted calls of an identifier, no more than N carry
\* timestamps within one window of W seconds, in whatever order the calls
\* reach redis; and every accepted call adds one entry of its own to the
\* identifier's sorted set.
C25_AtomicWindow ==
    /\ [](\A r \in Reqs :
            (reqs[r].pc = "done" /\ reqs[r].kind = "rate_call")
            => Cardinality({q \in AcceptedCalls(reqs[r].identifier) :
                   /\ reqs[r].at <= reqs[q].at
                   /\ reqs[q].at < reqs[r].at + RateWindow * MsPerSec})
                 <= RateLimit)
    /\ [][\A r \in Reqs :
            (reqs[r].pc = "rl_eval" /\ reqs'[r].pc = "done"
             /\ reqs'[r].resp.success)
            => \E e \in zset'[reqs[r].identifier] :
                 /\ e \notin zset[reqs[r].identifier]
                 /\ e.score = reqs[r].at]_vars

\* The part of C25 the script keeps: its check and its insert are one
\* step, so the sorted set never holds more than N entries, and an accepted
\* call adds an entry that was not there, also at an equal timestamp.
CheckAndAddAtomic ==
    /\ [](\A k \in DOMAIN zset : Cardinality(zset[k]) <= RateLimit)
    /\ [][\A r \in Reqs :
            (reqs[r].pc = "rl_eval" /\ reqs'[r].pc = "done"
             /\ reqs'[r].resp.success)
            => \E e \in zset'[reqs[r].identifier] :
                 /\ e \notin zset[reqs[r].identifier]
                 /\ e.score = reqs[r].at]_vars



(***************************************************************************)
(* app/api/admin/threats/upload/route.ts, lines 48-112: the upload         *)
(* transaction and its failure                                             *)
(***************************************************************************)
\* The store rejects a statement of the interactive transaction.  When it is
\* an upsert, Promise.allSettled keeps the rejection, but PostgreSQL has
\* aborted the transaction and the audit insert that follows is refused too;
\* when it is the audit insert or the commit, the callback throws directly.
\* Either way prisma.$transaction rolls back and the catch block answers 500.
ThreatUploadAborted(r, bodies) ==
    \E header \in {Bearer(u) : u \in DOMAIN users}, body \in bodies :
        LET auth == verifyAuth(header)
        IN  /\ MayStart(r)
            /\ auth.ok
            /\ checkAdminStatus(auth.userId)
            /\ ThreatUploadSchemaOk(body)
            /\ reqs' = UploadDone(r, auth.userId, body.threats,
                          [status |-> 500, error |-> "Threat upload failed"])
            /\ UNCHANGED <<store, redis, now>>

NextUpload ==
    \E r \in Reqs : \/ ThreatUploadPOST(r, UploadBodies)
                    \/ ThreatUploadAborted(r, UploadBodies)

SpecUpload == InitAdmin /\ [][NextUpload]_vars

\* C26: an upload answered 200 for a batch of n threats reports
\* uploaded + failed = n, adds in the same step exactly one AdminAuditLog row
\* of the caller with those counts and that version, and leaves at least
\* `uploaded' entries of the batch (all of them when failed = 0) in the store,
\* active and carrying the request's version; an upload that is not answered
\* 200 leaves the signatures and the audit log as they were.
C26_UploadCountsAndAudit ==
    [][\A r \in Reqs :
         (reqs[r].pc # "done" /\ reqs'[r].pc = "done"
            /\ reqs'[r].kind = "upload") =>
           LET q == reqs'[r]
               stored == {i \in DOMAIN q.threats :
                            \E j \in DOMAIN signatures' :
                               /\ signatures'[j].signature
                                    = q.threats[i].signature
                               /\ signatures'[j].isActive
                               /\ signatures'[j].version = q.resp.version}
           IN  IF q.resp.status = 200
               THEN /\ q.resp.uploaded + q.resp.failed = Len(q.threats)
                    /\ Len(adminAuditLog') = Len(adminAuditLog) + 1
                    /\ SubSeq(adminAuditLog', 1, Len(adminAuditLog))
                         = adminAuditLog
                    /\ LET row == adminAuditLog'[Len(adminAuditLog')]
                       IN  /\ row.adminId = q.userId
                           /\ row.action = "THREAT_UPLOAD"
                           /\ row.totalThreats = Len(q.threats)
                           /\ row.successful = q.resp.uploaded
                           /\ row.failed = q.resp.failed
                           /\ row.version = q.resp.version
                    /\ Cardinality(stored) >= q.resp.uploaded
               ELSE /\ signatures' = signatures
                    /\ adminAuditLog' = adminAuditLog]_vars

\* A batch of two threats was uploaded over a signature stored by an earlier
\* version, and another valid batch of an administrator was rolled back.
C26_Witness ==
    /\ \E r \in Reqs :
         /\ reqs[r].pc = "done" /\ reqs[r].kind = "upload"
         /\ reqs[r].resp.status = 200 /\ Len(reqs[r].threats) = 2
         /\ reqs[r].resp.uploaded = 2
    /\ \E r \in Reqs :
         /\ reqs[r].pc = "done" /\ reqs[r].kind = "upload"
         /\ reqs[r].resp.status = 500 /\ reqs[r].userId = 1
         /\ Len(reqs[r].threats) >= 1
    /\ \E j \in DOMAIN signatures :
         signatures[j].signature = "h1" /\ signatures[j].version = 3
    /\ Len(adminAuditLog) >= 2



C28_ScanRowsAllOrNone ==
    [][/\ (scanLogs' # scanLogs \/ quarantine' # quarantine
             \/ telemetry' # telemetry) =>
            \E r \in Reqs :
               /\ reqs[r].pc = "scan_tx" /\ reqs'[r].pc = "done"
               /\ reqs'[r].resp.status = 200
               /\ Len(scanLogs') = Len(scanLogs) + 1
               /\ SubSeq(scanLogs', 1, Len(scanLogs)) = scanLogs
               /\ scanLogs'[Len(scanLogs')].deviceId = reqs[r].device
               /\ Len(telemetry') = Len(telemetry) + 1
               /\ SubSeq(telemetry', 1, Len(telemetry)) = telemetry
               /\ telemetry'[Len(telemetry')].eventType = "scan_completed"
               /\ Len(quarantine') =
                    Len(quarantine) + Len(reqs[r].body.threats)
               /\ SubSeq(quarantine', 1, Len(quarantine)) = quarantine
       /\ \A r \in Reqs :
            (reqs[r].pc # "done" /\ reqs'[r].pc = "done"
               /\ reqs'[r].kind = "scan_report") =>
              IF reqs'[r].resp.status = 200
              THEN /\ Len(scanLogs') = Len(scanLogs) + 1
                   /\ Len(telemetry') = Len(telemetry) + 1
              ELSE /\ scanLogs' = scanLogs
                   /\ quarantine' = quarantine
                   /\ telemetry' = telemetry]_vars

\* One report was stored with its telemetry row, and another, whose
\* transaction the store refused, left nothing behind.
C28_Witness ==
    /\ \E r \in Reqs :
         /\ reqs[r].pc = "done" /\ reqs[r].kind = "scan_report"
         /\ reqs[r].resp.status = 200
    /\ \E r \in Reqs :
         /\ reqs[r].pc = "done" /\ reqs[r].kind = "scan_report"
         /\ reqs[r].resp.status = 500
         /\ reqs[r].resp.error = "Scan report failed"
    /\ Len(scanLogs) = 1 /\ Len(telemetry) = 1 /\ quarantine = <<>>



(***************************************************************************)
(* app/api/subscription/current/route.ts: a trial before, at and after its *)
(* end.  User 1 has paid, user 2 is in the trial registration gave them;   *)
(* the clock advances by half a trial period.                              *)
(***************************************************************************)
MaxTrialReqs == 2
MaxTrialTicks == 3
TrialStepMs == TrialMs \div 2

InitTrial ==
    /\ users = SeedUsers
    /\ devices = <<DeviceRow("dev-1", 1, Info1, StartTime),
                   DeviceRow("dev-2", 2, Info1, StartTime)>>
    /\ pushTokens = <<>>
    /\ commands = <<>>
    /\ telemetry = <<>>
    /\ subscriptions =
         <<SubscriptionRow(1, "premium", "active", "ios", "sub-1", "receipt-1",
                           0, StartTime, StartTime + 2 * TrialMs, StartTime),
           SubscriptionRow(2, "free", "trial", "android", "", "",
                           StartTime + TrialMs, StartTime, StartTime + TrialMs,
                           StartTime)>>
    /\ signatures = <<>>
    /\ scanLogs = <<>>
    /\ quarantine = <<>>
    /\ adminAuditLog = <<>>
    /\ cache = <<>>
    /\ redisUp = TRUE
    /\ zset = [k \in {RateKey("email_login", 1)} |-> {}]
    /\ zcounter = [k \in DOMAIN zset |-> 0]
    /\ now = StartTime
    /\ reqs = [r \in 1..MaxTrialReqs |-> Idle]

NextTrial ==
    \/ \E r \in Reqs : SubscriptionGetStart(r)
    \/ \E r \in Reqs : SubscriptionCreateFree(r)
    \/ \E r \in Reqs : SubscriptionExpireTrial(r)
    \/ \E r \in Reqs : PaymentStart(r, PaymentBodies)
    \/ \E r \in Reqs : PaymentUpsert(r)
    \/ \E r \in Reqs : LoginStart(r, {1},
            {[email |-> "b@example.com", password |-> "secret-b",
              deviceId |-> "dev-2", info |-> Info2]})
    \/ \E r \in Reqs : LoginFindSubscription(r)
    \/ \E r \in Reqs : LoginCreateTrial(r)
    \/ Tick(TrialStepMs, StartTime + MaxTrialTicks * TrialStepMs)

SpecTrial == InitTrial /\ [][NextTrial]_vars

\* C29: a GET /api/subscription/current that finds a trial whose trialEndsAt
\* has passed does not answer from that row but moves it to status expired
\* and tier free and reports isPremium = false and isTrialActive = false,
\* changing no other row; no step of any request takes a row out of status
\* expired; and no step changes a trial row whose trialEndsAt lies ahead.
C29_ExpiredTrialStaysExpired ==
    [][/\ \A r \in Reqs :
            (reqs[r].pc = "idle" /\ reqs'[r].pc = "done"
               /\ reqs'[r].kind = "subscription"
               /\ reqs'[r].resp.status = 200) =>
              LET found == subscriptions[reqs'[r].resp.id]
              IN  ~(found.status = "trial" /\ found.trialEndsAt < now)
       /\ \A r \in Reqs :
            (reqs[r].pc = "sub_expire" /\ reqs'[r].pc = "done") =>
              LET s == reqs[r].subscription
              IN  /\ subscriptions'[s].status = "expired"
                  /\ subscriptions'[s].tier = "free"
                  /\ reqs'[r].resp.status = 200
                  /\ reqs'[r].resp.id = s
                  /\ reqs'[r].resp.subscriptionStatus = "expired"
                  /\ reqs'[r].resp.isPremium = FALSE
                  /\ reqs'[r].resp.isTrialActive = FALSE
                  /\ DOMAIN subscriptions' = DOMAIN subscriptions
                  /\ \A t \in DOMAIN subscriptions \ {s} :
                       subscriptions'[t] = subscriptions[t]
       /\ \A s \in DOMAIN subscriptions :
            subscriptions[s].status = "expired"
              => subscriptions'[s].status = "expired"
       /\ \A s \in DOMAIN subscriptions :
            (subscriptions[s].status = "trial"
               /\ subscriptions[s].trialEndsAt > now)
              => subscriptions'[s] = subscriptions[s]]_vars

\* User 2's trial ended, a GET moved the row to expired, and afterwards a
\* payment of the same user was accepted while the row stayed expired.
C29_Witness ==
    /\ subscriptions[2].status = "expired" /\ subscriptions[2].tier = "free"
    /\ subscriptions[2].trialEndsAt < now
    /\ \E r \in Reqs :
         /\ reqs[r].pc = "done" /\ reqs[r].kind = "subscription"
         /\ reqs[r].resp.status = 200 /\ reqs[r].resp.id = 2
         /\ reqs[r].resp.subscriptionStatus = "expired"
    /\ \E s \in DOMAIN subscriptions :
         /\ subscriptions[s].userId = 2 /\ subscriptions[s].status = "active"
         /\ subscriptions[s].updatedAt > subscriptions[2].updatedAt



(***************************************************************************)
(* app/api/auth/verify/route.ts, lines 138-247: the provider identity of   *)
(* an existing account                                                     *)
(***************************************************************************)
\* C30: a sign-in whose verified email is the email of an existing User
\* whose authProviderId differs from the verified provider id (a
\* password-registered user has none) is answered 401 in the step that
\* starts it, and that step changes no User, Device or Subscription row;
\* a sign-in answered 200 names a user whose email and authProviderId are
\* the verified ones, and who had that authProviderId before if the account
\* existed.
C30_NoTokenForOtherIdentity ==
    [][/\ \A r \in Reqs :
            (reqs[r].pc = "idle" /\ reqs'[r].pc # "idle"
               /\ reqs'[r].kind = "verify") =>
              LET q == reqs'[r]
              IN  (\E u \in DOMAIN users :
                      /\ users[u].email = q.email
                      /\ users[u].authProviderId # q.providerId) =>
                    /\ q.pc = "done"
                    /\ q.resp.status = 401
                    /\ users' = users
                    /\ devices' = devices
                    /\ subscriptions' = subscriptions
       /\ \A r \in Reqs :
            (reqs[r].pc # "done" /\ reqs'[r].pc = "done"
               /\ reqs'[r].kind = "verify" /\ reqs'[r].resp.status = 200) =>
              LET q == reqs'[r]
              IN  /\ users'[q.resp.userId].email = q.email
                  /\ users'[q.resp.userId].authProviderId = q.providerId
                  /\ \A u \in DOMAIN users :
                       users[u].email = q.email =>
                         /\ u = q.resp.userId
                         /\ users[u].authProviderId = q.providerId]_vars

\* An Apple token for the email of a Google account and a Google token for
\* the email of a password account were both refused, and the store holds
\* the rows it held at the start.
C30_Witness ==
    /\ \E r \in Reqs :
         /\ reqs[r].pc = "done" /\ reqs[r].kind = "verify"
         /\ reqs[r].resp.status = 401
         /\ reqs[r].email = "a@example.com" /\ reqs[r].providerId = "apple-a"
    /\ \E r \in Reqs :
         /\ reqs[r].pc = "done" /\ reqs[r].kind = "verify"
         /\ reqs[r].resp.status = 401
         /\ reqs[r].email = "b@example.com" /\ reqs[r].providerId = "google-b"
    /\ users = SeedUsers
    /\ Len(devices) = 2
    /\ subscriptions = <<>>

=============================================================================
